---- MODULE Spec2Model ----
(***************************************************************************)
(* Viewport-driven incremental rendering pipeline of scatter-anti:         *)
(* the view transform (GpuLayer / ScatterPlot), the viewport bounds        *)
(* calculator and the throttled, generation-gated query scheduler          *)
(* (DataLayer), with the apply callback of ScatterPlot.scheduleDataUpdate. *)
(***************************************************************************)
EXTENDS Integers, Sequences, FiniteSets, TLC

(***************************************************************************)
(* JavaScript numbers.  A number is a pair <<n, d>>:                       *)
(*   d > 0   the rational n/d in lowest terms,                             *)
(*   <<1,0>> +Infinity,  <<-1,0>> -Infinity,  <<0,0>> NaN.                 *)
(* Arithmetic follows IEEE-754 for the special values; finite results are  *)
(* exact (rounding and the sign of zero are not represented).              *)
(***************************************************************************)
Abs(i) == IF i < 0 THEN -i ELSE i

Sgn(i) == IF i < 0 THEN -1 ELSE IF i > 0 THEN 1 ELSE 0

RECURSIVE GCD(_, _)
GCD(a, b) == IF b = 0 THEN a ELSE GCD(b, a % b)

Norm(n, d) ==
  IF d = 0 THEN <<Sgn(n), 0>>
  ELSE LET g == GCD(Abs(n), Abs(d))
       IN  <<(Sgn(d) * n) \div g, Abs(d) \div g>>

Q(n, d) == Norm(n, d)
I(n) == <<n, 1>>
NaN == <<0, 0>>
PosInf == <<1, 0>>
NegInf == <<-1, 0>>

IsNaN(a) == a = NaN
IsFinite(a) == a[2] # 0

Add(a, b) ==
  IF a[2] = 0 /\ b[2] = 0
  THEN (IF a = b THEN a ELSE NaN)
  ELSE Norm(a[1] * b[2] + b[1] * a[2], a[2] * b[2])

Neg(a) == <<-a[1], a[2]>>
Sub(a, b) == Add(a, Neg(b))
Mul(a, b) == Norm(a[1] * b[1], a[2] * b[2])

\* 1/x: 1/0 = +Infinity, 1/(+-Infinity) = 0, 1/NaN = NaN
Recip(a) ==
  IF a = NaN THEN NaN
  ELSE IF a[1] = 0 THEN PosInf
  ELSE IF a[2] = 0 THEN I(0)
  ELSE Norm(Sgn(a[1]) * a[2], Abs(a[1]))

Div(a, b) == Mul(a, Recip(b))

\* a < b, false when either side is NaN
Lt(a, b) ==
  /\ a # NaN /\ b # NaN
  /\ IF a[2] = 0 /\ b[2] = 0 THEN a[1] < b[1]
     ELSE IF a[2] = 0 THEN a[1] < 0
     ELSE IF b[2] = 0 THEN b[1] > 0
     ELSE a[1] * b[2] < b[1] * a[2]

Le(a, b) == a # NaN /\ b # NaN /\ (a = b \/ Lt(a, b))

\* Math.min / Math.max: NaN if either argument is NaN
MathMin(a, b) == IF a = NaN \/ b = NaN THEN NaN ELSE IF Lt(b, a) THEN b ELSE a
MathMax(a, b) == IF a = NaN \/ b = NaN THEN NaN ELSE IF Lt(a, b) THEN b ELSE a

(***************************************************************************)
(* Bounds of the model.                                                    *)
(***************************************************************************)
\* number of scheduleVisiblePointsUpdate calls in a behaviour
MaxCalls == 3
\* the clock runs from 0 to MaxTime milliseconds in steps of TimeStep
MaxTime == 600
TimeStep == 150
\* largest row count a query result carries
MaxRows == 1

(***************************************************************************)
(* Program constants.                                                      *)
(***************************************************************************)
queryThrottleInterval == 300
VIEWPORT_MARGIN == Q(1, 2)
MIN_ZOOM == Q(1, 10)
MAX_ZOOM == I(10)

VARIABLES
  now,                      \* performance.now(), in ms
  initPhase,                \* progress of ScatterPlot.initialize
  repository,               \* DataLayer.repository # null
  device,                   \* GpuLayer.context.device # null
  currentQueryId,           \* DataLayer.currentQueryId
  latestRequestedViewport,  \* {} (null) or {[zoom, panX, panY, queryId]}
  lastQueryTime,            \* DataLayer.lastQueryTime
  throttleTimer,            \* {} (null) or {handle}
  timers,                   \* the event loop's armed timeouts
  inflight,                 \* queries awaiting the data source
  currentVisibleData,       \* DataLayer.currentVisibleData (hit-test set)
  rowCount,                 \* GpuLayer.rowCount
  baseInstanceData,         \* GpuLayer.baseInstanceData
  zoom, panX, panY,         \* GpuLayer transform
  canvasW, canvasH,         \* canvas.width, canvas.height
  labelView,                \* LabelLayer's copy of (zoom, panX, panY)
  calls,                    \* history: scheduleVisiblePointsUpdate calls
  queries,                  \* history: data-source queries started
  completed,                \* history: the last query completion
  applied,                  \* history: queryIds handed to the callback
  rejected,                 \* an exception left updateVisiblePoints
  labelCanvas,              \* LabelLayer.labelCanvas: {} (null) or {[w, h]}
  lastOp,                   \* history: the last view operation or mapping applied
  visiblePointLimit,        \* DataLayer.visiblePointLimit
  instanceBuffer,           \* GpuLayer.instanceBuffer: {} (null) or {buffer id}
  instanceBufferCapacity,   \* GpuLayer.instanceBufferCapacity
  currentInstanceData,      \* GpuLayer.currentInstanceData: the sizes uploaded, {} (null) or {seq}
  gpuHoveredPointIndex,     \* GpuLayer.hoveredPointIndex: {} (null) or {index}
  hoverScaleFactor,         \* GpuLayer.hoverScaleFactor
  allocations,              \* history: number of device.createBuffer calls for instances
  destroyed,                \* history: the instance buffers destroyed
  bufferOps,                \* history: the buffer operations of the last upload, in order
  drawn,                    \* history: the last draw, {} or {[buffer, instances]}
  labels,                   \* LabelLayer.labels, sorted by count
  hoveredLabel,             \* LabelLayer.hoveredLabel: {} (null) or {label}
  hoveredPoint,             \* LabelLayer.hoveredPoint: {} (null) or {point}
  hoveredPointIndex,        \* LabelLayer.hoveredPointIndex: {} (null) or {index}
  renderedLabelBounds       \* LabelLayer.renderedLabelBounds

dataVars == <<repository, currentQueryId, latestRequestedViewport, lastQueryTime,
              throttleTimer, currentVisibleData, visiblePointLimit>>
bufferVars == <<instanceBuffer, instanceBufferCapacity, currentInstanceData, allocations,
                destroyed, bufferOps>>
gpuDataVars == <<device, rowCount, baseInstanceData, bufferVars, gpuHoveredPointIndex,
                 hoverScaleFactor>>
gpuVars == <<gpuDataVars, drawn>>
viewVars == <<zoom, panX, panY, canvasW, canvasH, labelView, labelCanvas>>
histVars == <<calls, queries, completed, applied, rejected>>
hoverVars == <<labels, hoveredLabel, hoveredPoint, hoveredPointIndex>>
labelVars == <<hoverVars, renderedLabelBounds>>
vars == <<now, initPhase, dataVars, timers, inflight, gpuVars, viewVars, histVars, lastOp,
          labelVars>>

Last(s) == s[Len(s)]

(***************************************************************************)
(* Viewport Bounds Calculator (DataLayer.calculateVisibleBounds).          *)
(***************************************************************************)
MarginAfterInversion(z, px, py, ar) ==
  [minX |-> Sub(Div(Mul(Sub(I(-1), px), ar), z), VIEWPORT_MARGIN),
   maxX |-> Add(Div(Mul(Sub(I(1), px), ar), z), VIEWPORT_MARGIN),
   minY |-> Sub(Div(Sub(I(-1), py), z), VIEWPORT_MARGIN),
   maxY |-> Add(Div(Sub(I(1), py), z), VIEWPORT_MARGIN)]

calculateVisibleBounds(z, px, py, ar) ==
  LET clipMin == Sub(I(-1), VIEWPORT_MARGIN)
      clipMax == Add(I(1), VIEWPORT_MARGIN)
  IN  [minX |-> Div(Mul(Sub(clipMin, px), ar), z),
       maxX |-> Div(Mul(Sub(clipMax, px), ar), z),
       minY |-> Div(Sub(clipMin, py), z),
       maxY |-> Div(Sub(clipMax, py), z)]

(***************************************************************************)
(* Query Scheduler (DataLayer.scheduleVisiblePointsUpdate /                *)
(* updateVisiblePoints).                                                   *)
(***************************************************************************)
\* line 209: if (timeSinceLastQuery >= this.queryThrottleInterval)
AlwaysRunImmediately(timeSinceLastQuery) == TRUE

RunImmediately(timeSinceLastQuery) == timeSinceLastQuery >= queryThrottleInterval

\* line 213: const delay = this.queryThrottleInterval - timeSinceLastQuery
ZeroDelay(timeSinceLastQuery) == 0

ThrottleDelay(timeSinceLastQuery) == queryThrottleInterval - timeSinceLastQuery

\* lines 200-203 with the pending timer left armed
KeepTimeout(armed, handle) == armed

\* lines 200-203: clearTimeout(this.throttleTimer)
ClearTimeout(armed, handle) == {t \in armed : t.id \notin handle}

\* line 217 with the deferred request dropped when its timer fires
NeverLatest(latest, queryId) == FALSE

\* line 217: latestRequestedViewport && latestRequestedViewport.queryId === queryId
IsLatestRequest(latest, queryId) == \E v \in latest : v.queryId = queryId

\* lines 247 and 258: queryId === this.currentQueryId
LastCompletionWins(queryId, current) == TRUE

IsCurrent(queryId, current) == queryId = current

\* line 251: !data || data.rowCount === 0
AcceptAnyResult(outcome) == outcome = "undefined"

IsEmptyResult(outcome) == outcome \in {"undefined", "empty"}

\* lines 261-263: catch {} -- what is left of an exception raised in the try block
Rethrow(exc) == exc

Catch(exc) == FALSE

Viewport(z, px, py, ar) == [zoom |-> z, panX |-> px, panY |-> py, aspectRatio |-> ar]

\* lines 235-244: the synchronous part of updateVisiblePoints, up to the await
StartQuery(z, px, py, ar, queryId) ==
  IF ~repository
  THEN UNCHANGED <<lastQueryTime, inflight, queries>>
  ELSE /\ lastQueryTime' = now
       /\ inflight' = inflight \cup
            {[queryId |-> queryId, bounds |-> calculateVisibleBounds(z, px, py, ar),
              limit |-> visiblePointLimit]}
       /\ queries' = Append(queries,
            [t |-> now, queryId |-> queryId, vp |-> Viewport(z, px, py, ar)])

\* line 195: this.currentQueryId++ with the id stuck at its value
SameQueryId(current) == current

\* line 195: this.currentQueryId++
NextQueryId(current) == current + 1

\* lines 187-222 with a pending deferred request left as it is: its timer is not
\* cancelled and it stays the latest requested viewport
scheduleWithoutSuperseding(z, px, py, ar) ==
  LET queryId == NextQueryId(currentQueryId)
      timeSinceLastQuery == now - lastQueryTime
  IN  /\ currentQueryId' = queryId
      /\ calls' = Append(calls,
           [t |-> now, ready |-> repository, vp |-> Viewport(z, px, py, ar)])
      /\ IF throttleTimer # {}
         THEN UNCHANGED <<latestRequestedViewport, throttleTimer, timers, lastQueryTime,
                          inflight, queries>>
         ELSE /\ latestRequestedViewport' =
                   {[zoom |-> z, panX |-> px, panY |-> py, queryId |-> queryId]}
              /\ IF RunImmediately(timeSinceLastQuery)
                 THEN /\ throttleTimer' = {}
                      /\ timers' = timers
                      /\ StartQuery(z, px, py, ar, queryId)
                 ELSE /\ throttleTimer' = {queryId}
                      /\ timers' = timers \cup
                           {[id |-> queryId,
                             fireAt |-> now + ThrottleDelay(timeSinceLastQuery),
                             queryId |-> queryId,
                             vp |-> Viewport(z, px, py, ar)]}
                      /\ UNCHANGED <<lastQueryTime, inflight, queries>>
      /\ UNCHANGED <<repository, currentVisibleData, visiblePointLimit, completed, applied,
                     rejected>>

\* lines 187-222
scheduleVisiblePointsUpdate(z, px, py, ar) ==
  LET queryId == NextQueryId(currentQueryId)
      timeSinceLastQuery == now - lastQueryTime
      cleared == ClearTimeout(timers, throttleTimer)
  IN  /\ currentQueryId' = queryId
      /\ latestRequestedViewport' =
           {[zoom |-> z, panX |-> px, panY |-> py, queryId |-> queryId]}
      /\ calls' = Append(calls,
           [t |-> now, ready |-> repository, vp |-> Viewport(z, px, py, ar)])
      /\ IF RunImmediately(timeSinceLastQuery)
         THEN /\ throttleTimer' = {}
              /\ timers' = cleared
              /\ StartQuery(z, px, py, ar, queryId)
         ELSE /\ throttleTimer' = {queryId}
              /\ timers' = cleared \cup
                   {[id |-> queryId,
                     fireAt |-> now + ThrottleDelay(timeSinceLastQuery),
                     queryId |-> queryId,
                     vp |-> Viewport(z, px, py, ar)]}
              /\ UNCHANGED <<lastQueryTime, inflight, queries>>
      /\ UNCHANGED <<repository, currentVisibleData, visiblePointLimit, completed, applied,
                     rejected>>

(***************************************************************************)
(* The coordinate mappings of the overlay and of hit-testing.  A point is  *)
(* a pair <<x, y>> of numbers.                                             *)
(***************************************************************************)
\* GpuLayer.getAspectRatio: canvas.width / canvas.height
AspectRatio(w, h) == Div(I(w), I(h))

\* LabelLayer.render, lines 168-169: world to clip space
WorldToClip(p, z, px, py, ar) ==
  <<Add(Mul(p[1], Div(z, ar)), px), Add(Mul(p[2], z), py)>>

\* LabelLayer.render, lines 172-173: clip space to screen pixels
ClipToScreen(c, w, h) ==
  <<Mul(Mul(Add(c[1], I(1)), Q(1, 2)), I(w)), Mul(Mul(Sub(I(1), c[2]), Q(1, 2)), I(h))>>

\* DataLayer.findNearestPoint, lines 404-405: screen pixels to clip space
ScreenToClip(sp, w, h) ==
  <<Sub(Mul(Div(sp[1], I(w)), I(2)), I(1)), Neg(Sub(Mul(Div(sp[2], I(h)), I(2)), I(1)))>>

\* DataLayer.findNearestPoint, lines 409-410, dividing X by the aspect ratio
ClipToWorldAspectInverted(c, z, px, py, ar) ==
  <<Div(Div(Sub(c[1], px), ar), z), Div(Sub(c[2], py), z)>>

\* DataLayer.findNearestPoint, lines 409-410: clip space to world
ClipToWorld(c, z, px, py, ar) ==
  <<Div(Mul(Sub(c[1], px), ar), z), Div(Sub(c[2], py), z)>>

(***************************************************************************)
(* The label overlay (LabelLayer): what render leaves for hit-testing, and *)
(* the two hit tests of the pointer-move handler.  A label is a record     *)
(* [ref, x, y, count, textWidth, properties]: ref is the object's identity, *)
(* textWidth the width measureText gives its text at the normal font size, *)
(* properties.pass the verdict of the filter predicate on the label.       *)
(***************************************************************************)
minLabelDistance == 40
labelFontSize == 12
hitPadding == 10
thresholdPixels == 10
normalScale == I(1)
hoverScale == Q(13, 10)

\* a * a
Square(a) == Mul(a, a)

\* lines 196-199: measureText(label.text).width at the scaled font size
TextWidth(label, scale) == Mul(I(label.textWidth), scale)

\* lines 160-173: the screen position of a label
LabelScreen(label, view, c) ==
  ClipToScreen(WorldToClip(<<label.x, label.y>>, view.zoom, view.panX, view.panY,
                           AspectRatio(c.w, c.h)), c.w, c.h)

\* lines 176-177: the label lies within the canvas
OnCanvas(sp, c) ==
  /\ Le(I(0), sp[1]) /\ Le(sp[1], I(c.w))
  /\ Le(I(0), sp[2]) /\ Le(sp[2], I(c.h))

\* lines 181-187 comparing with the last rendered label only
TooCloseToLast(sp, renderedPositions) ==
  /\ Len(renderedPositions) > 0
  /\ Lt(Add(Square(Sub(Last(renderedPositions)[1], sp[1])),
            Square(Sub(Last(renderedPositions)[2], sp[2]))),
        Square(Mul(I(minLabelDistance), Div(I(labelFontSize), I(12)))))

\* lines 181-187: closer than the minimum distance to a label already rendered
\* (sqrt(dx^2 + dy^2) < d compared as dx^2 + dy^2 < d^2)
TooClose(sp, renderedPositions) ==
  \E k \in 1..Len(renderedPositions) :
    Lt(Add(Square(Sub(renderedPositions[k][1], sp[1])),
           Square(Sub(renderedPositions[k][2], sp[2]))),
       Square(Mul(I(minLabelDistance), Div(I(labelFontSize), I(12)))))

\* lines 226-232: the bounding box stored for a rendered label
LabelBound(label, sp, scale) ==
  [label |-> label,
   x |-> Sub(sp[1], Div(TextWidth(label, scale), I(2))),
   y |-> Sub(sp[2], Div(Mul(I(labelFontSize), scale), I(2))),
   width |-> TextWidth(label, scale),
   height |-> Mul(I(labelFontSize), scale)]

\* lines 155-158: passedFilter = this.filterLambda(label.properties)
PassedFilter(label) == label.properties.pass

\* lines 204-219: the fill style the label is drawn with
FillStyle(label) == IF PassedFilter(label) THEN "active" ELSE "filtered"

\* lines 153-240 with a label that fails the filter skipped like one off the canvas
RECURSIVE RenderLabelsDroppingFiltered(_, _, _, _, _, _, _)
RenderLabelsDroppingFiltered(lbls, k, hovered, view, c, bounds, renderedPositions) ==
  IF k > Len(lbls)
  THEN bounds
  ELSE LET scale == IF lbls[k] \in hovered THEN hoverScale ELSE normalScale
           Step(sp) ==
             IF PassedFilter(lbls[k]) /\ OnCanvas(sp, c) /\ ~TooClose(sp, renderedPositions)
             THEN RenderLabelsDroppingFiltered(lbls, k + 1, hovered, view, c,
                               Append(bounds, LabelBound(lbls[k], sp, scale)),
                               Append(renderedPositions, sp))
             ELSE RenderLabelsDroppingFiltered(lbls, k + 1, hovered, view, c, bounds,
                                               renderedPositions)
       IN  CHOOSE result \in {Step(sp) : sp \in {LabelScreen(lbls[k], view, c)}} : TRUE

\* lines 153-240: the loop over the labels, from label k on
RECURSIVE RenderLabels(_, _, _, _, _, _, _)
RenderLabels(lbls, k, hovered, view, c, bounds, renderedPositions) ==
  IF k > Len(lbls)
  THEN bounds
  ELSE LET scale == IF lbls[k] \in hovered THEN hoverScale ELSE normalScale
           Step(sp) ==
             IF OnCanvas(sp, c) /\ ~TooClose(sp, renderedPositions)
             THEN RenderLabels(lbls, k + 1, hovered, view, c,
                               Append(bounds, LabelBound(lbls[k], sp, scale)),
                               Append(renderedPositions, sp))
             ELSE RenderLabels(lbls, k + 1, hovered, view, c, bounds, renderedPositions)
       IN  CHOOSE result \in {Step(sp) : sp \in {LabelScreen(lbls[k], view, c)}} : TRUE

\* LabelLayer.render: the renderedLabelBounds it leaves
RenderedBounds(lbls, hovered, view, canvas) ==
  IF canvas = {}
  THEN renderedLabelBounds
  ELSE RenderLabels(lbls, 1, hovered, view, CHOOSE c \in canvas : TRUE, <<>>, <<>>)

\* lines 460-463: the position lies in the padded bounding box
HitsPaddedBox(bound, x, y) ==
  /\ Le(Sub(bound.x, I(hitPadding)), x)
  /\ Le(x, Add(Add(bound.x, bound.width), I(hitPadding)))
  /\ Le(Sub(bound.y, I(hitPadding)), y)
  /\ Le(y, Add(Add(bound.y, bound.height), I(hitPadding)))

\* LabelLayer.getLabelAtPosition: {} (null) or the label of the first bound hit
getLabelAtPosition(bounds, x, y) ==
  LET hits == {k \in 1..Len(bounds) : HitsPaddedBox(bounds[k], x, y)}
  IN  IF hits = {} THEN {}
      ELSE {bounds[CHOOSE k \in hits : \A m \in hits : k <= m].label}

\* the size column of a result: sizeSql is '3' unless configured (data-layer.ts 45)
DefaultSize == I(3)

\* the data set: row i (0-based) of every result lies at the world position
\* (1/2 + i, 0)
DatasetRow(i) == <<Add(Q(1, 2), I(i)), I(0)>>

\* lines 1104-1115: the Point reconstructed for row i of the visible data
PointOfRow(i) == [x |-> DatasetRow(i)[1], y |-> DatasetRow(i)[2], size |-> DefaultSize]

\* lines 1086-1091: the squared world distance of the point p from the position wp
Distance2(p, wp) == Add(Square(Sub(p[1], wp[1])), Square(Sub(p[2], wp[2])))

\* line 1093 accepting a point at the same distance as the nearest so far
CloserOrEqual(d2, nearestDistance2) == Le(d2, nearestDistance2)

\* line 1093, distance < nearestDistance (Math.sqrt is monotonic: compared on the squares)
Closer(d2, nearestDistance2) == Lt(d2, nearestDistance2)

\* line 1093, distance <= thresholdWorld (compared on the squares)
WithinThreshold(d2, thresholdWorld) ==
  Le(I(0), thresholdWorld) /\ Le(d2, Square(thresholdWorld))

\* lines 1079-1097: the scan over the resident points (a sequence of <<x, y>>), from
\* point i on (1-based here); the result is the 0-based nearestIndex, -1 for none
RECURSIVE ScanNearest(_, _, _, _, _, _)
ScanNearest(points, i, wp, thresholdWorld, nearestIndex, nearestDistance2) ==
  IF i > Len(points)
  THEN nearestIndex
  ELSE LET d2 == Distance2(points[i], wp)
       IN  IF Closer(d2, nearestDistance2) /\ WithinThreshold(d2, thresholdWorld)
           THEN ScanNearest(points, i + 1, wp, thresholdWorld, i - 1, d2)
           ELSE ScanNearest(points, i + 1, wp, thresholdWorld, nearestIndex,
                            nearestDistance2)

\* lines 1076-1077: the hit threshold in world units
ThresholdWorld(z, w, h) ==
  Div(Mul(Mul(Div(I(thresholdPixels), I(w)), I(2)), AspectRatio(w, h)), z)

\* lines 1061-1102: {} (null) or {nearestIndex}
NearestIndex(points, sp, z, px, py, w, h) ==
  IF Len(points) = 0 THEN {}
  ELSE {n \in {ScanNearest(points, 1,
                           ClipToWorld(ScreenToClip(sp, w, h), z, px, py, AspectRatio(w, h)),
                           ThresholdWorld(z, w, h), -1, PosInf)} : n # -1}

\* the positions of the first rows of the data set
ResidentPoints(rows) == [k \in 1..rows |-> DatasetRow(k - 1)]

\* DataLayer.findNearestPoint: {} (null) or {[point, index]}
findNearestPoint(sp, rows, z, px, py, w, h) ==
  {[point |-> PointOfRow(i), index |-> i] :
     i \in NearestIndex(ResidentPoints(rows), sp, z, px, py, w, h)}

InstanceSizes(data) == [i \in 1..data.rows |-> DefaultSize]

\* GpuLayer.applyHoverScaling: the sizes after scaling the hovered instance
applyHoverScaling(sizes, hovered, factor, rows) ==
  IF hovered = {} \/ (\E h \in hovered : h < 0 \/ h >= rows)
  THEN sizes
  ELSE [i \in 1..Len(sizes) |-> IF i - 1 \in hovered THEN Mul(sizes[i], factor) ELSE sizes[i]]

\* line 409 with a reallocation whenever the row count differs from the capacity
ReallocateOnRowCount(capacity, data) == capacity # data.rows

\* line 409: this.instanceBufferCapacity !== data.visiblePointLimit
NeedsReallocation(capacity, data) == capacity # data.limit

\* GpuLayer.updateInstanceBuffer once the device is known to exist or not
UpdateInstanceBufferWith(dev, data) ==
  IF ~dev
  THEN UNCHANGED <<rowCount, baseInstanceData, bufferVars>>
  ELSE LET realloc == NeedsReallocation(instanceBufferCapacity, data)
           created == allocations + 1
           target == IF realloc THEN {created} ELSE instanceBuffer
       IN  /\ rowCount' = data.rows
           /\ baseInstanceData' = data
           /\ currentInstanceData' =
                {applyHoverScaling(InstanceSizes(data), gpuHoveredPointIndex,
                                   hoverScaleFactor, data.rows)}
           /\ instanceBuffer' = target
           /\ instanceBufferCapacity' = IF realloc THEN data.limit ELSE instanceBufferCapacity
           /\ allocations' = IF realloc THEN created ELSE allocations
           /\ destroyed' = IF realloc THEN destroyed \cup instanceBuffer ELSE destroyed
           /\ bufferOps' =
                (IF realloc
                 THEN <<[op |-> "create", buffer |-> created]>>
                      \o (IF instanceBuffer = {} THEN <<>>
                          ELSE <<[op |-> "destroy",
                                  buffer |-> CHOOSE b \in instanceBuffer : TRUE]>>)
                 ELSE <<>>)
                \o (IF target = {} THEN <<>>
                    ELSE <<[op |-> "write", buffer |-> CHOOSE b \in target : TRUE]>>)

\* GpuLayer.updateInstanceBuffer
updateInstanceBuffer(data) == UpdateInstanceBufferWith(device, data)

\* GpuLayer.initialize has created the pipeline, the quad buffers and the bind group
\* (they are created after the context, and nowhere else)
ResourcesCreated == initPhase.step = "ready"

\* GpuLayer.render with the guard on the device and the instance buffer only
DrawWithoutResources(dev, buffer, rows) ==
  IF dev /\ buffer # {} THEN {[buffer |-> buffer, instances |-> rows]} ELSE drawn

\* GpuLayer.render: what the draw call reads, if the layer is ready to draw
Draw(dev, buffer, rows) ==
  IF dev /\ ResourcesCreated /\ buffer # {}
  THEN {[buffer |-> buffer, instances |-> rows]}
  ELSE drawn

\* What the data source answers to one query, and whether the apply callback
\* (updateInstanceBuffer, then render) throws after it has acted.
Outcomes ==
  {[kind |-> k, rows |-> 0, cbThrows |-> FALSE] : k \in {"throw", "undefined", "empty"}}
  \cup {[kind |-> "noColumn", rows |-> r, cbThrows |-> c] : r \in 1..MaxRows, c \in BOOLEAN}
  \cup {[kind |-> "rows", rows |-> r, cbThrows |-> c] : r \in 1..MaxRows, c \in BOOLEAN}

NoData == [src |-> "none", gen |-> 0, rows |-> 0]

\* DataLayer.processDataToGpuFormat: the ProcessedData it returns
ProcessedData(src, gen, o) ==
  IF o.kind = "noColumn"
  THEN [src |-> "empty", gen |-> gen, rows |-> 0, limit |-> visiblePointLimit]
  ELSE [src |-> src, gen |-> gen, rows |-> o.rows, limit |-> visiblePointLimit]

\* DataLayer.processDataToGpuFormat: the hit-test set it leaves
VisibleDataAfter(src, gen, o) ==
  IF o.kind = "noColumn"
  THEN currentVisibleData
  ELSE [src |-> src, gen |-> gen, rows |-> o.rows]

(***************************************************************************)
(* Actions.                                                                *)
(***************************************************************************)
Viewports ==
  {Viewport(I(1), I(0), I(0), I(1)), Viewport(I(2), Q(1, 2), Q(-1, 4), I(2))}

\* performance.now() counts from the page's time origin: the layers are constructed
\* less than one throttle interval after it, or later
Init ==
  /\ now \in {0, queryThrottleInterval}
  /\ initPhase = [step |-> "constructed", data |-> NoData]
  /\ repository = FALSE
  /\ device = FALSE
  /\ currentQueryId = 0
  /\ latestRequestedViewport = {}
  /\ lastQueryTime = 0
  /\ throttleTimer = {}
  /\ timers = {}
  /\ inflight = {}
  /\ currentVisibleData = NoData
  /\ rowCount = 0
  /\ baseInstanceData = NoData
  /\ zoom = I(1) /\ panX = I(0) /\ panY = I(0)
  /\ canvasW = 2 /\ canvasH = 1
  /\ labelView = [zoom |-> I(1), panX |-> I(0), panY |-> I(0)]
  /\ calls = <<>> /\ queries = <<>> /\ applied = <<>>
  /\ completed = [queryId |-> 0, kind |-> "none", current |-> FALSE, exc |-> FALSE]
  /\ rejected = FALSE
  /\ labelCanvas = {}
  /\ lastOp = [op |-> "none"]
  /\ visiblePointLimit = MaxRows
  /\ instanceBuffer = {}
  /\ instanceBufferCapacity = 0
  /\ currentInstanceData = {}
  /\ gpuHoveredPointIndex = {}
  /\ hoverScaleFactor = Q(13, 10)
  /\ allocations = 0
  /\ destroyed = {}
  /\ bufferOps = <<>>
  /\ drawn = {}
  /\ labels = <<>>
  /\ hoveredLabel = {}
  /\ hoveredPoint = {}
  /\ hoveredPointIndex = {}
  /\ renderedLabelBounds = <<>>

\* the clock advances
Tick ==
  /\ now + TimeStep <= MaxTime
  /\ now' = now + TimeStep
  /\ UNCHANGED <<initPhase, dataVars, timers, inflight, gpuVars, viewVars, histVars, lastOp,
                 labelVars>>

\* DataLayer.initialize, line 81: the reader is created
InitRepository ==
  /\ initPhase.step = "constructed"
  /\ initPhase' = [step |-> "repoReady", data |-> NoData]
  /\ repository' = TRUE
  /\ UNCHANGED <<now, currentQueryId, latestRequestedViewport, lastQueryTime, throttleTimer,
                 currentVisibleData, visiblePointLimit, timers, inflight, gpuVars, viewVars,
                 histVars, lastOp, labelVars>>

\* DataLayer.loadInitialData: the initial query answers (a throw rejects initialize)
InitialDataLoaded ==
  /\ initPhase.step = "repoReady"
  /\ \E o \in Outcomes :
       /\ ~o.cbThrows
       /\ o.rows <= visiblePointLimit
       /\ IF o.kind = "throw"
          THEN /\ initPhase' = [step |-> "failed", data |-> NoData]
               /\ UNCHANGED currentVisibleData
          ELSE IF o.kind = "undefined"
          THEN /\ initPhase' = [step |-> "dataLoaded",
                                data |-> [src |-> "empty", gen |-> 0, rows |-> 0,
                                          limit |-> visiblePointLimit]]
               /\ UNCHANGED currentVisibleData
          ELSE /\ initPhase' = [step |-> "dataLoaded", data |-> ProcessedData("initial", 0, o)]
               /\ currentVisibleData' = VisibleDataAfter("initial", 0, o)
  /\ UNCHANGED <<now, repository, currentQueryId, latestRequestedViewport, lastQueryTime,
                 throttleTimer, visiblePointLimit, timers, inflight, gpuVars, viewVars,
                 histVars, lastOp, labelVars>>

\* GpuLayer.initialize and LabelLayer.initialize: the device is acquired, createBuffers
\* uploads the initial data, the overlay canvas is created with the canvas's size
GpuInitialize ==
  /\ initPhase.step = "dataLoaded"
  /\ initPhase' = [step |-> "ready", data |-> NoData]
  /\ device' = TRUE
  /\ UpdateInstanceBufferWith(TRUE, initPhase.data)
  /\ labelCanvas' = {[w |-> canvasW, h |-> canvasH]}
  /\ UNCHANGED <<now, dataVars, timers, inflight, zoom, panX, panY, canvasW, canvasH,
                 labelView, histVars, lastOp, gpuHoveredPointIndex, hoverScaleFactor, drawn,
                 labelVars>>

\* a caller of DataLayer.scheduleVisiblePointsUpdate
ScheduleUpdate ==
  /\ currentQueryId < MaxCalls
  /\ \E vp \in Viewports :
       scheduleVisiblePointsUpdate(vp.zoom, vp.panX, vp.panY, vp.aspectRatio)
  /\ UNCHANGED <<now, initPhase, gpuVars, viewVars, lastOp, labelVars>>

\* lines 214-220: the throttle timer fires
TimerFire ==
  \E t \in timers :
    /\ now >= t.fireAt
    /\ timers' = timers \ {t}
    /\ throttleTimer' = {}
    /\ IF IsLatestRequest(latestRequestedViewport, t.queryId)
       THEN StartQuery(t.vp.zoom, t.vp.panX, t.vp.panY, t.vp.aspectRatio, t.queryId)
       ELSE UNCHANGED <<lastQueryTime, inflight, queries>>
    /\ UNCHANGED <<now, initPhase, repository, currentQueryId, latestRequestedViewport,
                   currentVisibleData, visiblePointLimit, gpuVars, viewVars, calls,
                   completed, applied, rejected, lastOp, labelVars>>

\* lines 244-263: the data source answers and updateVisiblePoints resumes
Complete ==
  \E q \in inflight, o \in Outcomes :
    LET relevant == o.kind # "throw" /\ IsCurrent(q.queryId, currentQueryId)
        process == relevant /\ ~IsEmptyResult(o.kind)
        invoke == process /\ IsCurrent(q.queryId, currentQueryId)
        data == ProcessedData("query", q.queryId, o)
        exc == o.kind = "throw" \/ (invoke /\ o.cbThrows)
    IN  /\ (o.cbThrows => invoke)
        /\ o.rows <= q.limit
        /\ inflight' = inflight \ {q}
        /\ currentVisibleData' =
             IF process THEN VisibleDataAfter("query", q.queryId, o) ELSE currentVisibleData
        /\ IF invoke
           THEN /\ applied' = Append(applied, q.queryId)
                /\ updateInstanceBuffer(data)
                /\ drawn' = IF exc THEN drawn ELSE Draw(device, instanceBuffer', rowCount')
                /\ renderedLabelBounds' =
                     IF exc THEN renderedLabelBounds
                     ELSE RenderedBounds(labels, hoveredLabel, labelView, labelCanvas)
           ELSE UNCHANGED <<applied, rowCount, baseInstanceData, bufferVars, drawn,
                            renderedLabelBounds>>
        /\ rejected' = (rejected \/ Catch(exc))
        /\ completed' = [queryId |-> q.queryId, kind |-> o.kind,
                         current |-> (q.queryId = currentQueryId), exc |-> exc]
        /\ UNCHANGED <<now, initPhase, repository, currentQueryId, latestRequestedViewport,
                       lastQueryTime, throttleTimer, visiblePointLimit, timers, device,
                       gpuHoveredPointIndex, hoverScaleFactor, viewVars, calls, queries,
                       lastOp, hoverVars>>

Next ==
  \/ Tick
  \/ InitRepository
  \/ InitialDataLoaded
  \/ GpuInitialize
  \/ ScheduleUpdate
  \/ TimerFire
  \/ Complete

Spec == Init /\ [][Next]_vars

(***************************************************************************)
(* Query Scheduler: properties.                                            *)
(***************************************************************************)
\* C1: the result of a query is applied (the callback is invoked, the hit-test set
\* replaced) only if its queryId equals currentQueryId when it completes; a completion
\* whose queryId differs from currentQueryId changes no state of the layers.
C1_OnlyCurrentGenerationApplied ==
  [][completed' # completed =>
       /\ (applied' # applied \/ currentVisibleData' # currentVisibleData
             \/ baseInstanceData' # baseInstanceData \/ rowCount' # rowCount)
            => completed'.current
       /\ ~completed'.current =>
            UNCHANGED <<dataVars, gpuVars, viewVars, timers, applied, rejected>>]_vars

\* a result with rows completed while superseded, after another result had been applied
C1_Witness ==
  /\ completed.kind = "rows"
  /\ ~completed.current
  /\ applied # <<>>

\* C2: the generations whose results are applied are strictly increasing, whatever the
\* order in which the queries complete.
C2_AppliedGenerationsIncrease ==
  \A i, j \in 1..Len(applied) : i < j => applied[i] < applied[j]

\* generation 2 was applied first and generation 1 completed with rows afterwards
C2_Witness ==
  /\ applied = <<2>>
  /\ completed.queryId = 1
  /\ completed.kind = "rows"

\* the start of the last query executed before call c (lastQueryTime starts at 0)
PrevQueryTime(c) ==
  LET earlier == {k \in 1..Len(queries) : queries[k].queryId < c}
  IN  IF earlier = {} THEN 0
      ELSE queries[CHOOSE k \in earlier : \A m \in earlier : m <= k].t

\* the queries executed for the calls i..j
QueriesOf(i, j) == {k \in 1..Len(queries) : queries[k].queryId \in i..j}

C5_FailedOrEmptyResultDropped ==
  [][(completed' # completed /\ completed'.kind \in {"throw", "undefined", "empty"}) =>
       UNCHANGED <<applied, baseInstanceData, rowCount, currentVisibleData>>]_vars

\* an empty result arrived for the current generation after a result had been accepted
C5_Witness ==
  /\ completed.kind = "empty"
  /\ completed.current
  /\ applied # <<>>
  /\ rowCount > 0
  /\ currentVisibleData.rows > 0

\* C6: no exception of the data source or of the apply callback leaves
\* updateVisiblePoints: its promise never rejects.
C6_NoFailurePropagates == ~rejected

\* the apply callback threw on an accepted result
C6_Witness ==
  /\ completed.kind = "rows"
  /\ completed.exc
  /\ applied # <<>>

(***************************************************************************)
(* Transform (GpuLayer) and the coordinate mappings of the overlay and of  *)
(* hit-testing.  A point is a pair <<x, y>> of numbers.                    *)
(***************************************************************************)
\* number of view operations of ScatterPlot in a behaviour of SpecView
MaxOps == 2

\* GpuLayer.setZoom / zoomToPoint: Math.max(0.1, Math.min(10, zoom))
ClampZoom(z) == MathMax(MIN_ZOOM, MathMin(MAX_ZOOM, z))

\* GpuLayer.zoomToPoint: the new (zoom, panX, panY)
zoomToPoint(newZoom, sx, sy) ==
  LET clampedZoom == ClampZoom(newZoom)
      aspectRatio == AspectRatio(canvasW, canvasH)
      ndcX == Sub(Mul(Div(sx, I(canvasW)), I(2)), I(1))
      ndcY == Neg(Sub(Mul(Div(sy, I(canvasH)), I(2)), I(1)))
      worldXBefore == Div(Mul(Sub(ndcX, panX), aspectRatio), zoom)
      worldYBefore == Div(Sub(ndcY, panY), zoom)
  IN  [zoom |-> clampedZoom,
       panX |-> Sub(ndcX, Div(Mul(worldXBefore, clampedZoom), aspectRatio)),
       panY |-> Sub(ndcY, Mul(worldYBefore, clampedZoom))]

(***************************************************************************)
(* ScatterPlot's view operations.  Each one updates the GpuLayer, copies   *)
(* the transform to the LabelLayer, renders and schedules a data update.   *)
(***************************************************************************)
ZoomArgs == {NaN, PosInf, I(0), I(3)}
FactorArgs == {Q(6, 5), I(0)}
PanArgs == {Q(1, 2), I(-1)}
ScreenPoints == {<<I(0), I(1)>>, <<I(1), I(0)>>}
CanvasSizes == {<<4, 4>>, <<0, 0>>}

\* ScatterPlot.scheduleDataUpdate, with the transform the operation has just set
scheduleDataUpdate ==
  /\ scheduleVisiblePointsUpdate(zoom', panX', panY', AspectRatio(canvasW, canvasH))
  /\ drawn' = Draw(device, instanceBuffer, rowCount)
  /\ renderedLabelBounds' = RenderedBounds(labels, hoveredLabel, labelView', labelCanvas)
  /\ UNCHANGED <<now, initPhase, gpuDataVars, canvasW, canvasH, labelCanvas, hoverVars>>

\* line 196 with the requested zoom handed to the overlay
RequestedZoom(requested, stored) == requested

\* line 196: the overlay is given this.gpuLayer.getZoom(), the zoom the GpuLayer stored
StoredZoom(requested, stored) == stored

\* ScatterPlot.setZoom
SetZoomTo(z) ==
  /\ currentQueryId < MaxOps
  /\ zoom' = ClampZoom(z)
  /\ UNCHANGED <<panX, panY>>
  /\ labelView' = [zoom |-> StoredZoom(z, zoom'), panX |-> panX, panY |-> panY]
  /\ scheduleDataUpdate

SetZoom ==
  \E z \in ZoomArgs : SetZoomTo(z) /\ lastOp' = [op |-> "setZoom"]

\* ScatterPlot.zoomIn
ZoomIn ==
  \E f \in FactorArgs : SetZoomTo(Mul(zoom, f)) /\ lastOp' = [op |-> "zoomIn"]

\* ScatterPlot.zoomOut
ZoomOut ==
  \E f \in FactorArgs : SetZoomTo(Div(zoom, f)) /\ lastOp' = [op |-> "zoomOut"]

\* ScatterPlot.zoomToPoint
ZoomToPoint ==
  \E z \in ZoomArgs, sp \in ScreenPoints :
    LET sx == sp[1]
        sy == sp[2]
        t == zoomToPoint(z, sx, sy)
    IN  /\ currentQueryId < MaxOps
        /\ zoom' = t.zoom
        /\ panX' = t.panX
        /\ panY' = t.panY
        /\ labelView' = [zoom |-> zoom', panX |-> panX', panY |-> panY']
        /\ lastOp' = [op |-> "zoomToPoint", newZoom |-> z, sx |-> sx, sy |-> sy,
                      zoom |-> zoom, panX |-> panX, panY |-> panY]
        /\ scheduleDataUpdate

\* ScatterPlot.resetView
ResetView ==
  /\ currentQueryId < MaxOps
  /\ zoom' = ClampZoom(I(1))
  /\ panX' = I(0)
  /\ panY' = I(0)
  /\ labelView' = [zoom |-> I(1), panX |-> I(0), panY |-> I(0)]
  /\ lastOp' = [op |-> "resetView"]
  /\ scheduleDataUpdate

\* ScatterPlot.setPan
SetPanTo(x, y) ==
  /\ currentQueryId < MaxOps
  /\ panX' = x
  /\ panY' = y
  /\ UNCHANGED zoom
  /\ labelView' = [zoom |-> zoom, panX |-> x, panY |-> y]
  /\ scheduleDataUpdate

SetPan ==
  \E x \in PanArgs, y \in PanArgs : SetPanTo(x, y) /\ lastOp' = [op |-> "setPan"]

\* ScatterPlot.pan
Pan ==
  \E dx \in PanArgs, dy \in PanArgs :
    SetPanTo(Add(panX, dx), Add(panY, dy)) /\ lastOp' = [op |-> "pan"]

\* ScatterPlot.resize
Resize ==
  \E sz \in CanvasSizes :
    /\ canvasW' = sz[1]
    /\ canvasH' = sz[2]
    /\ labelCanvas' = IF labelCanvas = {} THEN {} ELSE {[w |-> sz[1], h |-> sz[2]]}
    /\ lastOp' = [op |-> "resize"]
    /\ drawn' = Draw(device, instanceBuffer, rowCount)
    /\ renderedLabelBounds' = RenderedBounds(labels, hoveredLabel, labelView, labelCanvas')
    /\ UNCHANGED <<now, initPhase, dataVars, timers, inflight, gpuDataVars, zoom, panX, panY,
                   labelView, histVars, hoverVars>>

NextView ==
  \/ SetZoom
  \/ ZoomIn
  \/ ZoomOut
  \/ ZoomToPoint
  \/ ResetView
  \/ SetPan
  \/ Pan
  \/ Resize
  \/ InitRepository

SpecView == Init /\ [][NextView]_vars

(***************************************************************************)
(* The mappings and calculateVisibleBounds as functions of their inputs:   *)
(* the transform and the canvas are drawn from values the view operations  *)
(* can set, and the actions apply the functions.                           *)
(***************************************************************************)
MapZooms == {MIN_ZOOM, I(1), Q(5, 2), MAX_ZOOM}
MapPans == {I(0), Q(1, 2), Q(-7, 4)}
MapCanvasSizes == {<<2, 1>>, <<4, 4>>, <<3, 5>>}
WorldPoints == {<<I(0), I(0)>>, <<Q(1, 3), I(-2)>>, <<I(5), Q(7, 2)>>}
MapScreenPoints == ScreenPoints \cup {<<Q(3, 2), I(2)>>}

InitMap ==
  /\ now = 0
  /\ initPhase = [step |-> "ready", data |-> NoData]
  /\ repository = TRUE
  /\ device = TRUE
  /\ currentQueryId = 0
  /\ latestRequestedViewport = {}
  /\ lastQueryTime = 0
  /\ throttleTimer = {}
  /\ timers = {}
  /\ inflight = {}
  /\ currentVisibleData = NoData
  /\ rowCount = 0
  /\ baseInstanceData = NoData
  /\ zoom \in MapZooms
  /\ panX \in MapPans
  /\ panY \in MapPans
  /\ \E sz \in MapCanvasSizes : canvasW = sz[1] /\ canvasH = sz[2]
  /\ labelView = [zoom |-> zoom, panX |-> panX, panY |-> panY]
  /\ calls = <<>> /\ queries = <<>> /\ applied = <<>>
  /\ completed = [queryId |-> 0, kind |-> "none", current |-> FALSE, exc |-> FALSE]
  /\ rejected = FALSE
  /\ labelCanvas = {[w |-> canvasW, h |-> canvasH]}
  /\ lastOp = [op |-> "none"]
  /\ visiblePointLimit = MaxRows
  /\ instanceBuffer = {}
  /\ instanceBufferCapacity = 0
  /\ currentInstanceData = {}
  /\ gpuHoveredPointIndex = {}
  /\ hoverScaleFactor = Q(13, 10)
  /\ allocations = 0
  /\ destroyed = {}
  /\ bufferOps = <<>>
  /\ drawn = {}
  /\ labels = <<>>
  /\ hoveredLabel = {}
  /\ hoveredPoint = {}
  /\ hoveredPointIndex = {}
  /\ renderedLabelBounds = <<>>

\* LabelLayer.render, lines 160-173: one label's position is mapped to the screen
RenderLabel ==
  \E p \in WorldPoints, c \in labelCanvas :
    LET clip == WorldToClip(p, labelView.zoom, labelView.panX, labelView.panY,
                            AspectRatio(c.w, c.h))
    IN  /\ lastOp' = [op |-> "render", world |-> p, clip |-> clip,
                      screen |-> ClipToScreen(clip, c.w, c.h)]
        /\ UNCHANGED <<now, initPhase, dataVars, timers, inflight, gpuVars, viewVars,
                       histVars, labelVars>>

\* DataLayer.findNearestPoint, lines 403-410: the pointer's position is mapped to world
FindNearestPoint ==
  \E sp \in MapScreenPoints :
    LET clip == ScreenToClip(sp, canvasW, canvasH)
    IN  /\ lastOp' = [op |-> "findNearestPoint", screen |-> sp, clip |-> clip,
                      world |-> ClipToWorld(clip, zoom, panX, panY,
                                            AspectRatio(canvasW, canvasH))]
        /\ UNCHANGED <<now, initPhase, dataVars, timers, inflight, gpuVars, viewVars,
                       histVars, labelVars>>

\* a caller of DataLayer.calculateVisibleBounds
CalculateVisibleBounds ==
  /\ lastOp' = [op |-> "calculateVisibleBounds", zoom |-> zoom, panX |-> panX,
                panY |-> panY, aspectRatio |-> AspectRatio(canvasW, canvasH),
                bounds |-> calculateVisibleBounds(zoom, panX, panY,
                                                  AspectRatio(canvasW, canvasH))]
  /\ UNCHANGED <<now, initPhase, dataVars, timers, inflight, gpuVars, viewVars, histVars,
                 labelVars>>

NextMap ==
  \/ RenderLabel
  \/ FindNearestPoint
  \/ CalculateVisibleBounds

SpecMap == InitMap /\ [][NextMap]_vars

(***************************************************************************)
(* Transform and mappings: properties.                                     *)
(***************************************************************************)
ZoomInRange(z) == Le(MIN_ZOOM, z) /\ Le(z, MAX_ZOOM)

\* C7: after any sequence of setZoom, zoomIn, zoomOut, zoomToPoint, resetView, setPan,
\* pan and resize calls with arbitrary numeric arguments, the zoom of the transform lies
\* in the closed range [0.1, 10].
C7_ZoomInRange == ZoomInRange(zoom)

\* the screen position, under the current transform, of the world point that was under
\* (sx, sy) before the last zoomToPoint
PointAfterZoomToPoint ==
  LET ar == AspectRatio(canvasW, canvasH)
      world == ClipToWorld(ScreenToClip(<<lastOp.sx, lastOp.sy>>, canvasW, canvasH),
                           lastOp.zoom, lastOp.panX, lastOp.panY, ar)
  IN  ClipToScreen(WorldToClip(world, zoom, panX, panY, ar), canvasW, canvasH)

\* C8: for every prior zoom in [0.1, 10], every prior (finite) pan, every (non-empty)
\* canvas and every screen point (sx, sy): after zoomToPoint(z2, sx, sy) the world point
\* that was under (sx, sy) maps back to (sx, sy) under the new transform, whatever z2.
C8_ZoomToPointKeepsPoint ==
  (/\ lastOp.op = "zoomToPoint"
   /\ ZoomInRange(lastOp.zoom)
   /\ IsFinite(lastOp.panX) /\ IsFinite(lastOp.panY)
   /\ canvasW > 0 /\ canvasH > 0)
  => PointAfterZoomToPoint = <<lastOp.sx, lastOp.sy>>

\* C8 for the values of z2 that Math.max / Math.min order: the same, when z2 is not NaN
C8_KeepsPointUnlessNaN ==
  (/\ lastOp.op = "zoomToPoint"
   /\ ~IsNaN(lastOp.newZoom)
   /\ ZoomInRange(lastOp.zoom)
   /\ IsFinite(lastOp.panX) /\ IsFinite(lastOp.panY)
   /\ canvasW > 0 /\ canvasH > 0)
  => PointAfterZoomToPoint = <<lastOp.sx, lastOp.sy>>

\* zoomToPoint was called with a zoom above the range, which was clamped, on a panned view
C8_Witness ==
  /\ lastOp.op = "zoomToPoint"
  /\ lastOp.newZoom = PosInf
  /\ zoom = MAX_ZOOM
  /\ lastOp.zoom # I(1)
  /\ ZoomInRange(lastOp.zoom)
  /\ lastOp.panX # I(0)
  /\ IsFinite(lastOp.panX) /\ IsFinite(lastOp.panY)
  /\ canvasW > 0 /\ canvasH > 0

C10_VisibleBounds ==
  /\ [](lastOp.op = "calculateVisibleBounds" =>
          /\ lastOp.bounds =
               [minX |-> Div(Mul(Sub(Q(-3, 2), lastOp.panX), lastOp.aspectRatio), lastOp.zoom),
                maxX |-> Div(Mul(Sub(Q(3, 2), lastOp.panX), lastOp.aspectRatio), lastOp.zoom),
                minY |-> Div(Sub(Q(-3, 2), lastOp.panY), lastOp.zoom),
                maxY |-> Div(Sub(Q(3, 2), lastOp.panY), lastOp.zoom)]
          /\ (lastOp.zoom = I(1) /\ lastOp.panX = I(0) /\ lastOp.panY = I(0)
                /\ lastOp.aspectRatio = I(1))
               => lastOp.bounds = [minX |-> Q(-3, 2), maxX |-> Q(3, 2),
                                   minY |-> Q(-3, 2), maxY |-> Q(3, 2)])
  /\ [][lastOp'.op = "calculateVisibleBounds" =>
          UNCHANGED <<now, initPhase, dataVars, timers, inflight, gpuVars, viewVars,
                      histVars>>]_vars

\* the bounds were computed for a zoomed and panned view of a canvas that is not square
C10_Witness ==
  /\ lastOp.op = "calculateVisibleBounds"
  /\ lastOp.zoom = Q(5, 2)
  /\ lastOp.panX = Q(1, 2)
  /\ lastOp.panY = Q(-7, 4)
  /\ lastOp.aspectRatio = I(2)
  /\ lastOp.bounds.minX = Q(-8, 5)

(***************************************************************************)
(* The instance buffer: GpuLayer.updateInstanceBuffer and setHoveredPoint  *)
(* driven directly, with results of varying row count and limit.           *)
(***************************************************************************)
MaxInstances == 2
MaxAllocations == 3

GpuLimits == 1..MaxInstances
HoverFactors == {Q(13, 10), I(2)}
HoverIndexes == {{}} \cup {{i} : i \in -1..MaxInstances}

\* a ProcessedData of r rows produced under the limit l
Result(r, l) == [src |-> "query", gen |-> 0, rows |-> r, limit |-> l]

\* the onDataUpdate callback of ScatterPlot: an accepted result is uploaded and drawn
UpdateInstanceBuffer ==
  /\ initPhase.step = "ready"
  /\ allocations < MaxAllocations
  /\ \E l \in GpuLimits :
       \E r \in 0..l :
         /\ updateInstanceBuffer(Result(r, l))
         /\ drawn' = Draw(device, instanceBuffer', rowCount')
         /\ renderedLabelBounds' = RenderedBounds(labels, hoveredLabel, labelView, labelCanvas)
         /\ lastOp' = [op |-> "updateInstanceBuffer", data |-> Result(r, l),
                       capacity |-> instanceBufferCapacity, allocations |-> allocations,
                       buffer |-> instanceBuffer, bound |-> drawn]
  /\ UNCHANGED <<now, initPhase, dataVars, timers, inflight, device, gpuHoveredPointIndex,
                 hoverScaleFactor, viewVars, histVars, hoverVars>>

\* setHoveredPoint restoring the working copy from the sizes already scaled
RestoreFromCurrent(base, current) == CHOOSE sizes \in current : TRUE

\* line 541: this.currentInstanceData = new Float32Array(this.baseInstanceData)
RestoreFromBase(base, current) == InstanceSizes(base)

\* GpuLayer.setHoveredPoint
setHoveredPoint(index, scaleFactor) ==
  /\ gpuHoveredPointIndex' = index
  /\ hoverScaleFactor' = scaleFactor
  /\ IF baseInstanceData.src # "none" /\ device /\ instanceBuffer # {}
     THEN /\ currentInstanceData' =
               {applyHoverScaling(RestoreFromBase(baseInstanceData, currentInstanceData),
                                  index, scaleFactor, rowCount)}
          /\ bufferOps' = <<[op |-> "write", buffer |-> CHOOSE b \in instanceBuffer : TRUE]>>
     ELSE UNCHANGED <<currentInstanceData, bufferOps>>
  /\ UNCHANGED <<device, rowCount, baseInstanceData, instanceBuffer, instanceBufferCapacity,
                 allocations, destroyed>>

\* a caller of GpuLayer.setHoveredPoint
SetHoveredPoint ==
  /\ \E index \in HoverIndexes, scaleFactor \in HoverFactors :
       /\ setHoveredPoint(index, scaleFactor)
       /\ lastOp' = [op |-> "setHoveredPoint", index |-> index, scaleFactor |-> scaleFactor,
                     sizes |-> currentInstanceData, hovered |-> gpuHoveredPointIndex]
  /\ UNCHANGED <<now, initPhase, dataVars, timers, inflight, drawn, viewVars, histVars,
                 labelVars>>

\* ScatterPlot.render: the GPU layer draws
Render ==
  /\ drawn' = Draw(device, instanceBuffer, rowCount)
  /\ renderedLabelBounds' = RenderedBounds(labels, hoveredLabel, labelView, labelCanvas)
  /\ lastOp' = [op |-> "render"]
  /\ UNCHANGED <<now, initPhase, dataVars, timers, inflight, gpuDataVars, viewVars, histVars,
                 hoverVars>>

NextGpu ==
  \/ InitRepository
  \/ InitialDataLoaded
  \/ GpuInitialize
  \/ UpdateInstanceBuffer
  \/ SetHoveredPoint
  \/ Render

SpecGpu == Init /\ [][NextGpu]_vars

\* C11: an accepted result whose limit equals the buffer's capacity is uploaded without
\* a reallocation (same buffer, same capacity, whatever its row count); a result with a
\* different limit L' causes exactly one reallocation, after which the capacity is L'.
C11_ReallocationOnlyOnLimitChange ==
  lastOp.op = "updateInstanceBuffer" =>
    IF lastOp.data.limit = lastOp.capacity
    THEN /\ allocations = lastOp.allocations
         /\ instanceBuffer = lastOp.buffer
         /\ instanceBufferCapacity = lastOp.capacity
    ELSE /\ allocations = lastOp.allocations + 1
         /\ instanceBuffer = {allocations}
         /\ instanceBufferCapacity = lastOp.data.limit

\* a result with fewer rows than the unchanged limit was uploaded into the buffer of an
\* earlier allocation, after the limit had changed once
C11_Witness ==
  /\ lastOp.op = "updateInstanceBuffer"
  /\ lastOp.data.limit = lastOp.capacity
  /\ lastOp.data.rows < lastOp.data.limit
  /\ allocations = 2
  /\ instanceBufferCapacity = MaxInstances



\* C13: in an upload that replaces the instance buffer, the previous buffer is destroyed
\* only after the data has been written into the replacement.
C13_ReleaseAfterPopulate ==
  \A i, j \in 1..Len(bufferOps) :
    (bufferOps[i].op = "destroy" /\ bufferOps[j].op = "write") => j < i

\* C14: the upload of an accepted result never writes into the buffer bound by the
\* draw that preceded it.
C14_NeverWritesBoundBuffer ==
  lastOp.op = "updateInstanceBuffer" =>
    \A k \in 1..Len(bufferOps) :
      bufferOps[k].op = "write" =>
        \A d \in lastOp.bound : bufferOps[k].buffer \notin d.buffer

\* the sizes GpuLayer holds for upload, given the canonical data and the hover state
EmphasizedSizes(base, hovered, factor) ==
  [i \in 1..base.rows |->
     IF i - 1 \in hovered THEN Mul(InstanceSizes(base)[i], factor) ELSE InstanceSizes(base)[i]]

\* C19: whatever setHoveredPoint calls came before, the size held for the hovered point
\* is its base size times the scale factor and every other point has its base size;
\* setHoveredPoint leaves baseInstanceData as it was (the steps of initialization are
\* the only ones that keep lastOp, and they change initPhase).
C19_HoverDoesNotCompound ==
  /\ [](\A sizes \in currentInstanceData :
          sizes = EmphasizedSizes(baseInstanceData, gpuHoveredPointIndex, hoverScaleFactor))
  /\ [][(lastOp'.op = "setHoveredPoint" /\ initPhase' = initPhase)
          => baseInstanceData' = baseInstanceData]_vars

\* with two points uploaded, a point is hovered right after another point (or the same
\* point) was hovered with the same factor
C19_Witness ==
  /\ lastOp.op = "setHoveredPoint"
  /\ rowCount = 2
  /\ lastOp.index \in {{0}, {1}}
  /\ lastOp.hovered \in {{0}, {1}}
  /\ lastOp.scaleFactor = hoverScaleFactor
  /\ \E sizes \in lastOp.sizes :
       sizes = EmphasizedSizes(baseInstanceData, lastOp.hovered, lastOp.scaleFactor)
  /\ \E sizes \in currentInstanceData :
       \E i \in 1..2 : sizes[i] = Mul(DefaultSize, hoverScaleFactor)

(***************************************************************************)
(* The point limit changed while queries are scheduled and in flight.      *)
(***************************************************************************)
MaxLimitCalls == 2

Limits == 0..MaxRows

\* a caller of DataLayer.scheduleVisiblePointsUpdate (a pan or zoom of the view)
ScheduleQuery ==
  /\ currentQueryId < MaxLimitCalls
  /\ \E vp \in Viewports :
       scheduleVisiblePointsUpdate(vp.zoom, vp.panX, vp.panY, vp.aspectRatio)
  /\ UNCHANGED <<now, initPhase, gpuVars, viewVars, lastOp, labelVars>>

\* ScatterPlot.update({data: {visiblePointLimit}}): DataLayer.updateOptions, then render
UpdateOptions ==
  /\ \E limit \in Limits :
       /\ visiblePointLimit' = limit
       /\ lastOp' = [op |-> "updateOptions", limit |-> limit]
  /\ drawn' = Draw(device, instanceBuffer, rowCount)
  /\ renderedLabelBounds' = RenderedBounds(labels, hoveredLabel, labelView, labelCanvas)
  /\ UNCHANGED <<now, initPhase, repository, currentQueryId, latestRequestedViewport,
                 lastQueryTime, throttleTimer, currentVisibleData, timers, inflight,
                 gpuDataVars, viewVars, histVars, hoverVars>>

NextLimit ==
  \/ Tick
  \/ InitRepository
  \/ InitialDataLoaded
  \/ GpuInitialize
  \/ ScheduleQuery
  \/ TimerFire
  \/ Complete
  \/ UpdateOptions

SpecLimit == Init /\ [][NextLimit]_vars

\* C12: the renderer never draws more instances than the instance buffer holds, and
\* every ProcessedData handed to the renderer has rowCount <= visiblePointLimit.
C12_RowsWithinLimit ==
  /\ device => rowCount <= instanceBufferCapacity
  /\ \A d \in drawn : d.instances <= instanceBufferCapacity
  /\ baseInstanceData.src # "none" => baseInstanceData.rows <= baseInstanceData.limit

(***************************************************************************)
(* Hover: the pointer handlers of the overlay (LabelLayer) on a plot that  *)
(* has been initialized, with label loads, renders and data refreshes.     *)
(***************************************************************************)
MaxLabelLoads == 1
MaxRefreshes == 1

\* canvas size of the hover scenarios, in pixels
HoverCanvas == [w |-> 200, h |-> 100]

\* GeoJSON features: [x, y, count, textWidth, properties]
Feature1 ==
  [x |-> I(0), y |-> I(0), count |-> 1, textWidth |-> 20, properties |-> [pass |-> TRUE]]
Feature2 ==
  [x |-> Q(1, 5), y |-> I(0), count |-> 2, textWidth |-> 20, properties |-> [pass |-> TRUE]]
LabelFiles == {<<Feature1>>, <<Feature1, Feature2>>}

\* positions of the pointer on the canvas, in pixels
PointerPositions ==
  {<<I(100), I(50)>>, <<I(120), I(50)>>, <<I(130), I(50)>>, <<I(170), I(50)>>}

\* the state ScatterPlot.initialize leaves: n rows loaded and uploaded, the overlay
\* canvas created, no labels
InitHover ==
  /\ now = queryThrottleInterval
  /\ initPhase = [step |-> "ready", data |-> NoData]
  /\ repository = TRUE
  /\ device = TRUE
  /\ currentQueryId = 0
  /\ latestRequestedViewport = {}
  /\ lastQueryTime = 0
  /\ throttleTimer = {}
  /\ timers = {}
  /\ inflight = {}
  /\ visiblePointLimit = MaxRows
  /\ \E n \in 1..MaxRows :
       /\ currentVisibleData = [src |-> "initial", gen |-> 0, rows |-> n]
       /\ rowCount = n
       /\ baseInstanceData = [src |-> "initial", gen |-> 0, rows |-> n, limit |-> MaxRows]
       /\ currentInstanceData = {[i \in 1..n |-> DefaultSize]}
  /\ zoom = I(1) /\ panX = I(0) /\ panY = I(0)
  /\ canvasW = HoverCanvas.w /\ canvasH = HoverCanvas.h
  /\ labelView = [zoom |-> I(1), panX |-> I(0), panY |-> I(0)]
  /\ calls = <<>> /\ queries = <<>> /\ applied = <<>>
  /\ completed = [queryId |-> 0, kind |-> "none", current |-> FALSE, exc |-> FALSE]
  /\ rejected = FALSE
  /\ labelCanvas = {HoverCanvas}
  /\ lastOp = [op |-> "none"]
  /\ instanceBuffer = {1}
  /\ instanceBufferCapacity = MaxRows
  /\ gpuHoveredPointIndex = {}
  /\ hoverScaleFactor = Q(13, 10)
  /\ allocations = 1
  /\ destroyed = {}
  /\ bufferOps = <<[op |-> "create", buffer |-> 1], [op |-> "write", buffer |-> 1]>>
  /\ drawn = {}
  /\ labels = <<>>
  /\ hoveredLabel = {}
  /\ hoveredPoint = {}
  /\ hoveredPointIndex = {}
  /\ renderedLabelBounds = <<>>

\* lines 315-316 without the sort
Unsorted(seq) == seq

\* lines 315-316: sort by count, descending (Array.prototype.sort is stable: a label
\* stays before the later labels of the same count)
RECURSIVE SortByCount(_)
SortByCount(seq) ==
  IF Len(seq) <= 1 THEN seq
  ELSE LET rest == SortByCount(Tail(seq))
           before == {k \in 0..Len(rest) : \A m \in 1..k : rest[m].count > Head(seq).count}
           at == CHOOSE k \in before : \A m \in before : m <= k
       IN  SubSeq(rest, 1, at) \o <<Head(seq)>> \o SubSeq(rest, at + 1, Len(rest))

\* the label objects the overlay holds or remembers
KnownLabels ==
  {labels[k] : k \in 1..Len(labels)} \cup hoveredLabel
  \cup {renderedLabelBounds[k].label : k \in 1..Len(renderedLabelBounds)}

\* line 310: feature.properties?.count || 0 (a feature without count has no count field)
CountOf(feature) == IF "count" \in DOMAIN feature THEN feature.count ELSE 0

\* LabelLayer.loadLabels: new label objects, mapped from the features and sorted
loadLabels(features, load) ==
  SortByCount([k \in 1..Len(features) |->
                 [ref |-> <<load, k>>, x |-> features[k].x, y |-> features[k].y,
                  count |-> CountOf(features[k]), textWidth |-> features[k].textWidth,
                  properties |-> features[k].properties]])

\* ScatterPlot.loadLabels: the labels are replaced, then everything is rendered
LoadLabels ==
  LET load == 1 + Cardinality({l.ref[1] : l \in KnownLabels})
  IN  /\ initPhase.step = "ready"
      /\ \A l \in KnownLabels : l.ref[1] < MaxLabelLoads
      /\ \E features \in LabelFiles :
           LET fresh == 1 + (IF KnownLabels = {} THEN 0
                             ELSE CHOOSE n \in {l.ref[1] : l \in KnownLabels} :
                                    \A l \in KnownLabels : l.ref[1] <= n)
           IN  labels' = loadLabels(features, fresh)
      /\ drawn' = Draw(device, instanceBuffer, rowCount)
      /\ renderedLabelBounds' = RenderedBounds(labels', hoveredLabel, labelView, labelCanvas)
      /\ lastOp' = [op |-> "loadLabels"]
      /\ UNCHANGED <<now, initPhase, dataVars, timers, inflight, gpuDataVars, viewVars,
                     histVars, hoveredLabel, hoveredPoint, hoveredPointIndex>>

\* the pointer-move handler testing the points whatever the label test found
AlwaysTestsPoints(labelAtPosition) == TRUE

\* line 345: !labelAtPosition && this.dataLayer
TestsPoints(labelAtPosition) == labelAtPosition = {}

\* the pointer-move handler keeping the hovered label when no label is under the pointer
StickyHoveredLabel(labelAtPosition, hovered) ==
  IF labelAtPosition = {} THEN hovered ELSE labelAtPosition

\* lines 370-374: the hovered label after the label test
NewHoveredLabel(labelAtPosition, hovered) ==
  IF labelAtPosition # hovered THEN labelAtPosition ELSE hovered

\* line 379, newHoveredPoint !== this.hoveredPoint: findNearestPoint builds a new Point
\* object on every call, so the two references are identical only when both are null
SamePointObject(newHoveredPoint, hovered) == newHoveredPoint = {} /\ hovered = {}

\* what the handlers remember of the hover state they found
HoverState ==
  [hoveredLabel |-> hoveredLabel, hoveredPoint |-> hoveredPoint,
   hoveredPointIndex |-> hoveredPointIndex]

\* lines 334-391: the mousemove handler of the overlay's parent
MouseMove ==
  /\ labelCanvas # {}
  /\ \E sp \in PointerPositions :
     \E c \in labelCanvas :
     \E labelAtPosition \in {getLabelAtPosition(renderedLabelBounds, sp[1], sp[2])} :
     \E nearest \in {findNearestPoint(sp, currentVisibleData.rows, labelView.zoom,
                                      labelView.panX, labelView.panY, c.w, c.h)} :
       LET tested == TestsPoints(labelAtPosition)
           pointHit == IF tested THEN nearest ELSE {}
           labelChanged == labelAtPosition # hoveredLabel
           newHoveredPoint == {h.point : h \in pointHit}
           newHoveredIndex == {h.index : h \in pointHit}
           pointChanged == \/ ~SamePointObject(newHoveredPoint, hoveredPoint)
                           \/ newHoveredIndex # hoveredPointIndex
       IN  /\ hoveredLabel' = NewHoveredLabel(labelAtPosition, hoveredLabel)
           /\ hoveredPoint' = IF pointChanged THEN newHoveredPoint ELSE hoveredPoint
           /\ hoveredPointIndex' =
                IF pointChanged THEN newHoveredIndex ELSE hoveredPointIndex
           /\ renderedLabelBounds' =
                IF labelChanged \/ pointChanged
                THEN RenderedBounds(labels, hoveredLabel', labelView, labelCanvas)
                ELSE renderedLabelBounds
           /\ lastOp' =
                [op |-> "mousemove", pos |-> sp, bounds |-> renderedLabelBounds,
                 near |-> {h.index : h \in nearest}, tested |-> tested,
                 hit |-> newHoveredIndex, data |-> currentVisibleData,
                 callbacks |-> IF pointChanged
                               THEN <<[point |-> newHoveredPoint, index |-> newHoveredIndex]>>
                               ELSE <<>>,
                 renders |-> (IF labelChanged THEN 1 ELSE 0)
                             + (IF pointChanged THEN 1 ELSE 0),
                 before |-> HoverState,
                 prev |-> IF lastOp.op = "mousemove"
                          THEN [op |-> "mousemove", hit |-> lastOp.hit, data |-> lastOp.data]
                          ELSE [op |-> lastOp.op, hit |-> {}, data |-> NoData]]
  /\ UNCHANGED <<now, initPhase, dataVars, timers, inflight, gpuVars, viewVars, histVars,
                 labels>>

\* the mouseleave handler invoking the callback only when something was hovered
FiresOnLeaveIfHovered(state) ==
  state.hoveredPoint # {} \/ state.hoveredPointIndex # {}

\* lines 442-444: if (this.onPointHover), the wrapper ScatterPlot always registers
FiresOnLeave(state) == TRUE

\* lines 436-452: the mouseleave handler of the overlay's parent
MouseLeave ==
  /\ labelCanvas # {}
  /\ hoveredLabel' = {}
  /\ hoveredPoint' = {}
  /\ hoveredPointIndex' = {}
  /\ renderedLabelBounds' = RenderedBounds(labels, hoveredLabel', labelView, labelCanvas)
  /\ lastOp' = [op |-> "mouseleave", before |-> HoverState,
                callbacks |-> IF FiresOnLeave(HoverState)
                              THEN <<[point |-> {}, index |-> {}]>> ELSE <<>>]
  /\ UNCHANGED <<now, initPhase, dataVars, timers, inflight, gpuVars, viewVars, histVars,
                 labels>>

\* ScatterPlot.update with data.whereConditions: the data of the current view is
\* queried again (lines 126-128, 170-171)
RefreshData ==
  /\ currentQueryId < MaxRefreshes
  /\ scheduleVisiblePointsUpdate(zoom, panX, panY, AspectRatio(canvasW, canvasH))
  /\ UNCHANGED <<now, initPhase, gpuVars, viewVars, lastOp, labelVars>>

NextHover ==
  \/ MouseMove
  \/ MouseLeave
  \/ LoadLabels
  \/ Render
  \/ RefreshData
  \/ Complete

SpecHover == InitHover /\ [][NextHover]_vars

\* the labels whose padded bounding box, as last rendered, contains the pointer
LabelsUnder(bounds, pos) ==
  {bounds[k].label : k \in {m \in 1..Len(bounds) : HitsPaddedBox(bounds[m], pos[1], pos[2])}}

\* C15: a pointer-move inside the padded bounding box of a rendered label and within
\* the hit threshold of a resident point resolves to the label: hoveredLabel is a label
\* under the pointer, hoveredPoint and hoveredPointIndex are null, and the points were
\* not hit-tested for that event.
C15_LabelTakesPriority ==
  (/\ lastOp.op = "mousemove"
   /\ LabelsUnder(lastOp.bounds, lastOp.pos) # {}
   /\ lastOp.near # {})
  => /\ hoveredLabel # {}
     /\ hoveredLabel \subseteq LabelsUnder(lastOp.bounds, lastOp.pos)
     /\ hoveredPoint = {}
     /\ hoveredPointIndex = {}
     /\ ~lastOp.tested

\* the pointer moved from a hovered point to a position over both a label and a point
C15_Witness ==
  /\ lastOp.op = "mousemove"
  /\ LabelsUnder(lastOp.bounds, lastOp.pos) # {}
  /\ lastOp.near # {}
  /\ lastOp.before.hoveredPoint # {}
  /\ hoveredLabel # {}

\* C16: the hover state is one of Idle, LabelHovered and PointHovered: hoveredLabel and
\* hoveredPoint are never both non-null (and hoveredPointIndex is null exactly when
\* hoveredPoint is), whatever pointer events, renders, label loads and data refreshes
\* have happened.
C16_OneHoverTarget ==
  /\ ~(hoveredLabel # {} /\ hoveredPoint # {})
  /\ (hoveredPoint = {}) <=> (hoveredPointIndex = {})

\* a pointer-move took the hover from a label to a point after the labels had been
\* loaded and the data refreshed
C16_Witness ==
  /\ lastOp.op = "mousemove"
  /\ lastOp.before.hoveredLabel # {}
  /\ hoveredPoint # {}
  /\ currentVisibleData.src = "query"
  /\ Len(labels) > 0

\* C17: two consecutive pointer-moves resolving to the same resident point, with no
\* data refresh between them: the second neither invokes the callback nor re-renders;
\* a pointer-move resolving to no point after one that resolved to no point does not
\* invoke the callback.
C17_CallbackOnlyOnChange ==
  (lastOp.op = "mousemove" /\ lastOp.prev.op = "mousemove"
   /\ lastOp.prev.data = lastOp.data /\ lastOp.prev.hit = lastOp.hit)
  => IF lastOp.hit # {}
     THEN lastOp.callbacks = <<>> /\ lastOp.renders = 0
     ELSE lastOp.callbacks = <<>>

\* C18: a pointer-leave leaves hoveredLabel, hoveredPoint and hoveredPointIndex null
\* and has invoked the hover callback exactly once, with (null, null), whatever the
\* hover state was before.
C18_LeaveForcesIdle ==
  lastOp.op = "mouseleave" =>
    /\ hoveredLabel = {} /\ hoveredPoint = {} /\ hoveredPointIndex = {}
    /\ lastOp.callbacks = <<[point |-> {}, index |-> {}]>>

\* the pointer left while nothing was hovered
C18_Witness ==
  /\ lastOp.op = "mouseleave"
  /\ lastOp.before = [hoveredLabel |-> {}, hoveredPoint |-> {}, hoveredPointIndex |-> {}]
  /\ Len(lastOp.callbacks) = 1

\* C20: after every pointer event the GPU layer's hoveredPointIndex equals the
\* overlay's hoveredPointIndex.
C20_HoverIndexAgrees ==
  lastOp.op \in {"mousemove", "mouseleave"} => gpuHoveredPointIndex = hoveredPointIndex

(***************************************************************************)
(* The scheduler on an initialized plot, with the operations that leave    *)
(* the request counter alone: DataLayer.updateOptions and                  *)
(* DataLayer.destroy.                                                      *)
(***************************************************************************)
\* DataLayer.destroy, lines 463-471: the pending throttle timer is cancelled
Destroy ==
  /\ timers' = ClearTimeout(timers, throttleTimer)
  /\ throttleTimer' = {}
  /\ lastOp' = [op |-> "destroy"]
  /\ UNCHANGED <<now, initPhase, repository, currentQueryId, latestRequestedViewport,
                 lastQueryTime, currentVisibleData, visiblePointLimit, inflight, gpuVars,
                 viewVars, histVars, labelVars>>

NextSched ==
  \/ Tick
  \/ ScheduleUpdate
  \/ TimerFire
  \/ Complete
  \/ UpdateOptions
  \/ Destroy

SpecSched == InitHover /\ [][NextSched]_vars

\* C28: currentQueryId counts the scheduleVisiblePointsUpdate calls: a call raises it by
\* exactly 1 and assigns the new value to its request, and no other step (timer
\* firing, query completion, updateOptions, destroy, clock) changes it; so the
\* requests get the distinct ids 1, 2, 3, ...
C28_QueryIdCountsCalls ==
  /\ [](currentQueryId = Len(calls))
  /\ [][IF Len(calls') = Len(calls) + 1
        THEN /\ currentQueryId' = currentQueryId + 1
             /\ \A t \in timers' \ timers : t.queryId = currentQueryId'
             /\ \A q \in inflight' \ inflight : q.queryId = currentQueryId'
        ELSE currentQueryId' = currentQueryId]_vars

\* three calls have been made, a timer has fired, a query has completed, the limit has
\* been changed and the layer destroyed
C28_Witness ==
  /\ currentQueryId = 3
  /\ Len(queries) >= 2
  /\ completed.kind # "none"
  /\ lastOp.op = "destroy"
  /\ visiblePointLimit # MaxRows

\* C29: at most one throttle timer is armed, and throttleTimer holds exactly the handle
\* of the armed timer: it is null when none is armed.
C29_OnePendingTimer ==
  /\ Cardinality(timers) <= 1
  /\ throttleTimer = {t.id : t \in timers}

\* the third call found the timer of the second pending, cancelled it and armed its own
C29_Witness ==
  /\ currentQueryId = 3
  /\ Len(queries) = 1
  /\ throttleTimer = {3}
  /\ \E t \in timers : t.queryId = 3

\* C30: a query started by a timer (a step that starts a query without being a call)
\* is the query of the latest request; so a deferred request that a later call
\* superseded never queries the data source.
C30_DeferredRunsOnlyIfLatest ==
  [][(Len(queries') = Len(queries) + 1 /\ calls' = calls)
     => Last(queries').queryId = Len(calls)]_vars

\* the second request was deferred and superseded by the third, whose timer fired and
\* started the query: no query of the second request exists
C30_Witness ==
  /\ Len(calls) = 3
  /\ Len(queries) = 2
  /\ queries[1].queryId = 1 /\ queries[2].queryId = 3
  /\ queries[2].t > calls[3].t

(***************************************************************************)
(* Hit-testing the points: findNearestPoint as a function of the resident  *)
(* points, the transform and the pointer position.                         *)
(***************************************************************************)
MaxPoints == 2

\* world positions of resident points: on the canvas 200 x 100 at zoom 1 the pointer
\* positions below are the world positions (0, 0) and (1/5, 0), and the threshold is
\* 1/5 (1/10 at zoom 2)
NearestPoints ==
  {<<Q(1, 5), I(0)>>, <<Q(-1, 5), I(0)>>, <<I(0), Q(1, 10)>>, <<I(0), Q(-1, 10)>>,
   <<I(1), I(1)>>}

NearestPointers == {<<I(100), I(50)>>, <<I(110), I(50)>>}

\* zoom levels the transform can hold (NaN passes the clamp of setZoom)
NearestZooms == {I(1), I(2), NaN}

RECURSIVE SeqsUpTo(_, _)
SeqsUpTo(S, n) ==
  IF n = 0 THEN {<<>>}
  ELSE LET shorter == SeqsUpTo(S, n - 1)
       IN  shorter \cup {Append(q, e) : q \in shorter, e \in S}

\* an initialized plot with up to MaxPoints resident points
InitNearest ==
  /\ now = 0
  /\ initPhase = [step |-> "ready", data |-> NoData]
  /\ repository = TRUE
  /\ device = TRUE
  /\ currentQueryId = 0
  /\ latestRequestedViewport = {}
  /\ lastQueryTime = 0
  /\ throttleTimer = {}
  /\ timers = {}
  /\ inflight = {}
  /\ \E pts \in SeqsUpTo(NearestPoints, MaxPoints) :
       /\ currentVisibleData = [src |-> "initial", gen |-> 0, rows |-> Len(pts),
                                points |-> pts]
       /\ rowCount = Len(pts)
       /\ baseInstanceData = [src |-> "initial", gen |-> 0, rows |-> Len(pts),
                              limit |-> MaxPoints]
       /\ currentInstanceData = {[i \in 1..Len(pts) |-> DefaultSize]}
  /\ zoom \in NearestZooms
  /\ panX = I(0) /\ panY = I(0)
  /\ canvasW = HoverCanvas.w /\ canvasH = HoverCanvas.h
  /\ labelView = [zoom |-> zoom, panX |-> panX, panY |-> panY]
  /\ calls = <<>> /\ queries = <<>> /\ applied = <<>>
  /\ completed = [queryId |-> 0, kind |-> "none", current |-> FALSE, exc |-> FALSE]
  /\ rejected = FALSE
  /\ labelCanvas = {HoverCanvas}
  /\ lastOp = [op |-> "none"]
  /\ visiblePointLimit = MaxPoints
  /\ instanceBuffer = {1}
  /\ instanceBufferCapacity = MaxPoints
  /\ gpuHoveredPointIndex = {}
  /\ hoverScaleFactor = Q(13, 10)
  /\ allocations = 1
  /\ destroyed = {}
  /\ bufferOps = <<[op |-> "create", buffer |-> 1], [op |-> "write", buffer |-> 1]>>
  /\ drawn = {}
  /\ labels = <<>>
  /\ hoveredLabel = {}
  /\ hoveredPoint = {}
  /\ hoveredPointIndex = {}
  /\ renderedLabelBounds = <<>>

\* a call of DataLayer.findNearestPoint as the pointer-move handler makes it
\* (label-layer.ts 346-356)
FindNearest ==
  \E sp \in NearestPointers, c \in labelCanvas :
    /\ lastOp' =
         [op |-> "nearest", pos |-> sp, points |-> currentVisibleData.points,
          world |-> ClipToWorld(ScreenToClip(sp, c.w, c.h), labelView.zoom, labelView.panX,
                                labelView.panY, AspectRatio(c.w, c.h)),
          threshold |-> ThresholdWorld(labelView.zoom, c.w, c.h),
          result |-> NearestIndex(currentVisibleData.points, sp, labelView.zoom,
                                  labelView.panX, labelView.panY, c.w, c.h)]
    /\ UNCHANGED <<now, initPhase, dataVars, timers, inflight, gpuVars, viewVars, histVars,
                   labelVars>>

NextNearest == FindNearest

SpecNearest == InitNearest /\ [][NextNearest]_vars

\* C21: findNearestPoint returns null when no resident point lies within the threshold
\* of the pointer's world position (or there is no resident point); otherwise it
\* returns a point within the threshold at the least distance, and of the points at
\* that distance the first in scan order.
C21_NearestWithinThreshold ==
  lastOp.op = "nearest" =>
    LET n == Len(lastOp.points)
        d == [i \in 1..n |-> Distance2(lastOp.points[i], lastOp.world)]
        within == {i \in 1..n : /\ Le(I(0), lastOp.threshold)
                                /\ Le(d[i], Square(lastOp.threshold))}
    IN  IF within = {}
        THEN lastOp.result = {}
        ELSE \E i \in within :
               /\ lastOp.result = {i - 1}
               /\ \A j \in within : Le(d[i], d[j])
               /\ \A j \in within : d[j] = d[i] => i <= j

\* two different resident points at the same distance within the threshold: the first
\* is returned
C21_Witness ==
  /\ lastOp.op = "nearest"
  /\ Len(lastOp.points) = 2
  /\ lastOp.points[1] # lastOp.points[2]
  /\ Distance2(lastOp.points[1], lastOp.world) = Distance2(lastOp.points[2], lastOp.world)
  /\ lastOp.result = {0}

(***************************************************************************)
(* The overlay's render as a function of the labels, the filter verdicts,  *)
(* the hovered label and the transform.                                    *)
(***************************************************************************)
MaxLabels == 3

\* world positions of label features; on the canvas 200 x 100 at zoom 1 they are the
\* screen positions (100, 50), (80, 50), (150, 50) and (100, 10); at zoom 2
\* (100, 50), (60, 50), (200, 50) and (100, -30)
LabelPositions == {<<I(0), I(0)>>, <<Q(-2, 5), I(0)>>, <<I(1), I(0)>>, <<I(0), Q(4, 5)>>}

\* the feature files: up to MaxLabels features at different positions, each with the
\* verdict of the filter predicate on its properties
LabelFeatureFiles ==
  {f \in SeqsUpTo({[x |-> p[1], y |-> p[2], count |-> 1, textWidth |-> 20,
                    properties |-> [pass |-> v]] : p \in LabelPositions, v \in BOOLEAN},
                  MaxLabels) :
     \A k, m \in 1..Len(f) : (f[k].x = f[m].x /\ f[k].y = f[m].y) => k = m}

LabelZooms == {I(1), I(2)}

\* positions tested against the rendered bounds, in pixels
HitPositions ==
  {<<I(100), I(50)>>, <<I(60), I(50)>>, <<I(80), I(50)>>, <<I(150), I(50)>>,
   <<I(100), I(10)>>, <<I(125), I(30)>>}

\* an initialized plot whose overlay holds the labels of a feature file, at a zoom level
\* and with no label or the first label hovered
InitLabels ==
  /\ now = 0
  /\ initPhase = [step |-> "ready", data |-> NoData]
  /\ repository = TRUE
  /\ device = TRUE
  /\ currentQueryId = 0
  /\ latestRequestedViewport = {}
  /\ lastQueryTime = 0
  /\ throttleTimer = {}
  /\ timers = {}
  /\ inflight = {}
  /\ currentVisibleData = [src |-> "initial", gen |-> 0, rows |-> 0]
  /\ rowCount = 0
  /\ baseInstanceData = [src |-> "initial", gen |-> 0, rows |-> 0, limit |-> MaxRows]
  /\ currentInstanceData = {<<>>}
  /\ zoom \in LabelZooms
  /\ panX = I(0) /\ panY = I(0)
  /\ canvasW = HoverCanvas.w /\ canvasH = HoverCanvas.h
  /\ labelView = [zoom |-> zoom, panX |-> panX, panY |-> panY]
  /\ calls = <<>> /\ queries = <<>> /\ applied = <<>>
  /\ completed = [queryId |-> 0, kind |-> "none", current |-> FALSE, exc |-> FALSE]
  /\ rejected = FALSE
  /\ labelCanvas = {HoverCanvas}
  /\ lastOp = [op |-> "none"]
  /\ visiblePointLimit = MaxRows
  /\ instanceBuffer = {1}
  /\ instanceBufferCapacity = MaxRows
  /\ gpuHoveredPointIndex = {}
  /\ hoverScaleFactor = Q(13, 10)
  /\ allocations = 1
  /\ destroyed = {}
  /\ bufferOps = <<[op |-> "create", buffer |-> 1], [op |-> "write", buffer |-> 1]>>
  /\ drawn = {}
  /\ \E features \in LabelFeatureFiles : labels = loadLabels(features, 1)
  /\ hoveredLabel \in {{}} \cup {{labels[k]} : k \in 1..Len(labels) \cap {1}}
  /\ hoveredPoint = {}
  /\ hoveredPointIndex = {}
  /\ renderedLabelBounds = <<>>

\* LabelLayer.render, lines 125-244
RenderOverlay ==
  /\ renderedLabelBounds' = RenderedBounds(labels, hoveredLabel, labelView, labelCanvas)
  /\ lastOp' = [op |-> "renderLabels",
                styles |-> [k \in 1..Len(renderedLabelBounds') |->
                              FillStyle(renderedLabelBounds'[k].label)]]
  /\ UNCHANGED <<now, initPhase, dataVars, timers, inflight, gpuVars, viewVars, histVars,
                 hoverVars>>

NextLabels == RenderOverlay

SpecLabels == InitLabels /\ [][NextLabels]_vars

\* the screen position of the k-th placed label
PlacedAt(k) ==
  LabelScreen(renderedLabelBounds[k].label, labelView, CHOOSE c \in labelCanvas : TRUE)

\* C22: after a render every placed label has its screen position inside the canvas
\* rectangle and every two placed labels are at least minLabelDistance *
\* (labelFontSize / 12) pixels apart (compared on the squares).
C22_PlacedLabelsApart ==
  /\ \A k \in 1..Len(renderedLabelBounds) :
       /\ Le(I(0), PlacedAt(k)[1]) /\ Le(PlacedAt(k)[1], I(canvasW))
       /\ Le(I(0), PlacedAt(k)[2]) /\ Le(PlacedAt(k)[2], I(canvasH))
  /\ \A k, m \in 1..Len(renderedLabelBounds) :
       k < m =>
         Le(Square(Mul(I(minLabelDistance), Div(I(labelFontSize), I(12)))),
            Add(Square(Sub(PlacedAt(k)[1], PlacedAt(m)[1])),
                Square(Sub(PlacedAt(k)[2], PlacedAt(m)[2]))))

\* of three labels the third was skipped because it is too close to the first though
\* far from the second
C22_Witness ==
  /\ lastOp.op = "renderLabels"
  /\ Len(labels) = 3
  /\ Len(renderedLabelBounds) = 2
  /\ renderedLabelBounds[1].label = labels[1]
  /\ renderedLabelBounds[2].label = labels[2]
  /\ OnCanvas(LabelScreen(labels[3], labelView, HoverCanvas), HoverCanvas)
  /\ ~TooCloseToLast(LabelScreen(labels[3], labelView, HoverCanvas),
                     <<PlacedAt(1), PlacedAt(2)>>)

\* the label with the verdict of the filter replaced by "passes"
Passing(label) == [label EXCEPT !.properties = [pass |-> TRUE]]

\* a bound without the verdict of the filter
SameBound(a, b) ==
  /\ a.label.ref = b.label.ref
  /\ a.x = b.x /\ a.y = b.y /\ a.width = b.width /\ a.height = b.height

\* C23: the render places the labels, records their bounds and answers hit tests
\* exactly as it would if every label passed the filter predicate; a placed label that
\* fails the predicate is drawn in the de-emphasized style.
C23_FilteredLabelsStayHittable ==
  lastOp.op = "renderLabels" =>
    LET allPass == RenderedBounds([k \in 1..Len(labels) |-> Passing(labels[k])],
                                  {Passing(l) : l \in hoveredLabel}, labelView, labelCanvas)
    IN  /\ Len(renderedLabelBounds) = Len(allPass)
        /\ \A k \in 1..Len(allPass) : SameBound(renderedLabelBounds[k], allPass[k])
        /\ \A pos \in HitPositions :
             {l.ref : l \in getLabelAtPosition(renderedLabelBounds, pos[1], pos[2])}
               = {l.ref : l \in getLabelAtPosition(allPass, pos[1], pos[2])}
        /\ \A k \in 1..Len(renderedLabelBounds) :
             lastOp.styles[k] = "filtered"
               <=> ~renderedLabelBounds[k].label.properties.pass

\* a label that fails the predicate was placed, drawn de-emphasized, and is the label
\* found at a position in its padded box
C23_Witness ==
  /\ lastOp.op = "renderLabels"
  /\ \E k \in 1..Len(renderedLabelBounds), pos \in HitPositions :
       /\ ~renderedLabelBounds[k].label.properties.pass
       /\ lastOp.styles[k] = "filtered"
       /\ getLabelAtPosition(renderedLabelBounds, pos[1], pos[2])
            = {renderedLabelBounds[k].label}

(***************************************************************************)
(* The query text of DataLayer.runQuery.  A text is a sequence of pieces;  *)
(* a piece is the single quote "'" or a string without a single quote.     *)
(***************************************************************************)
MaxValueLen == 3

Quote == "'"

\* the pieces a filter value is made of, and the values up to MaxValueLen pieces
ValuePieces == {"o", Quote, "brien"}

FilterValues == SeqsUpTo(ValuePieces, MaxValueLen)

\* template literal ${number}: the numbers that occur, as JavaScript prints them
NumberToString(a) ==
  CASE a = I(10) -> "10"
    [] a = I(3) -> "3"
    [] a = I(-3) -> "-3"
    [] a = Q(3, 2) -> "1.5"
    [] a = Q(-3, 2) -> "-1.5"
    [] a = Q(3, 4) -> "0.75"
    [] a = Q(-3, 4) -> "-0.75"
    [] a = NaN -> "NaN"

\* line 106: condition.value.replace(/'/g, "''")
RECURSIVE EscapeQuotes(_)
EscapeQuotes(value) ==
  IF value = <<>> THEN <<>>
  ELSE (IF Head(value) = Quote THEN <<Quote, Quote>> ELSE <<Head(value)>>)
       \o EscapeQuotes(Tail(value))

\* lines 102-106: a condition whose type is not 'numeric' is taken for a string
\* filter; when it has no value (a RawSqlFilter, types.ts 66-69) condition.value is
\* undefined and condition.value.replace throws a TypeError
Throws(condition) ==
  condition.type # "numeric" /\ "value" \notin DOMAIN condition

\* lines 101-119: the clause of one condition that does not throw
buildWhereClauseString(condition) ==
  IF condition.type = "numeric"
  THEN <<condition.column, " ", condition.operator, " ", NumberToString(condition.value)>>
  ELSE LET escapedValue == EscapeQuotes(condition.value)
       IN  CASE condition.operator = "equals" ->
                  <<condition.column, " = ", Quote>> \o escapedValue \o <<Quote>>
             [] condition.operator = "contains" ->
                  <<condition.column, " LIKE ", Quote, "%">> \o escapedValue \o <<"%", Quote>>
             [] condition.operator = "startsWith" ->
                  <<condition.column, " LIKE ", Quote>> \o escapedValue \o <<"%", Quote>>
             [] condition.operator = "endsWith" ->
                  <<condition.column, " LIKE ", Quote, "%">> \o escapedValue \o <<Quote>>

\* line 134: whereConditions.join(' AND ')
RECURSIVE JoinAnd(_)
JoinAnd(clauses) ==
  IF Len(clauses) = 0 THEN <<>>
  ELSE IF Len(clauses) = 1 THEN clauses[1]
  ELSE clauses[1] \o <<" AND ">> \o JoinAnd(Tail(clauses))

\* lines 124-134: the predicate of the query
WhereClause(bounds, conditions) ==
  JoinAnd(<<<<"x BETWEEN ", NumberToString(bounds.minX), " AND ",
              NumberToString(bounds.maxX)>>,
            <<"y BETWEEN ", NumberToString(bounds.minY), " AND ",
              NumberToString(bounds.maxY)>>>>
          \o [k \in 1..Len(conditions) |-> buildWhereClauseString(conditions[k])])

\* the conditions a caller configures: numeric conditions on score, string conditions
\* on name
NumericConditions ==
  {[type |-> "numeric", column |-> "score", operator |-> op, value |-> I(10)] :
     op \in {">=", "<"}}

StringConditions ==
  {[type |-> "string", column |-> "name", operator |-> op, value |-> v] :
     op \in {"equals", "contains", "startsWith", "endsWith"}, v \in FilterValues}

\* types.ts 66-72: a WhereCondition is also a raw filter
RawConditions == {[type |-> "raw", sql |-> <<"score > 1">>]}

\* the lists of conditions made of a numeric condition n, a string condition s and a
\* raw condition r
ConditionLists(n, s, r) ==
  [none |-> <<>>, numeric |-> <<n>>, string |-> <<s>>, numericString |-> <<n, s>>,
   stringNumeric |-> <<s, n>>, stringString |-> <<s, [s EXCEPT !.operator = "equals"]>>,
   raw |-> <<r>>, numericRaw |-> <<n, r>>]

\* the zoom levels of the views queried
WhereZooms == {I(1), I(2)}

\* the state ScatterPlot.initialize leaves for a DataLayer constructed with a list
\* of conditions (line 73: this.whereConditions = options.whereConditions ?? [])
InitWhere ==
  /\ now = queryThrottleInterval
  /\ initPhase = [step |-> "ready", data |-> NoData]
  /\ repository = TRUE
  /\ device = TRUE
  /\ currentQueryId = 0
  /\ latestRequestedViewport = {}
  /\ lastQueryTime = 0
  /\ throttleTimer = {}
  /\ timers = {}
  /\ inflight = {}
  /\ visiblePointLimit = MaxRows
  /\ currentVisibleData = [src |-> "initial", gen |-> 0, rows |-> MaxRows]
  /\ rowCount = MaxRows
  /\ baseInstanceData = [src |-> "initial", gen |-> 0, rows |-> MaxRows, limit |-> MaxRows]
  /\ currentInstanceData = {[i \in 1..MaxRows |-> DefaultSize]}
  /\ zoom \in WhereZooms
  /\ panX = I(0) /\ panY = I(0)
  /\ canvasW = HoverCanvas.w /\ canvasH = HoverCanvas.h
  /\ labelView = [zoom |-> zoom, panX |-> panX, panY |-> panY]
  /\ calls = <<>> /\ queries = <<>> /\ applied = <<>>
  /\ completed = [queryId |-> 0, kind |-> "none", current |-> FALSE, exc |-> FALSE]
  /\ rejected = FALSE
  /\ labelCanvas = {HoverCanvas}
  /\ \E n \in NumericConditions, s \in StringConditions, r \in RawConditions :
     \E shape \in DOMAIN ConditionLists(n, s, r) :
       lastOp = [op |-> "constructor", whereConditions |-> ConditionLists(n, s, r)[shape]]
  /\ instanceBuffer = {1}
  /\ instanceBufferCapacity = MaxRows
  /\ gpuHoveredPointIndex = {}
  /\ hoverScaleFactor = Q(13, 10)
  /\ allocations = 1
  /\ destroyed = {}
  /\ bufferOps = <<[op |-> "create", buffer |-> 1], [op |-> "write", buffer |-> 1]>>
  /\ drawn = {}
  /\ labels = <<>>
  /\ hoveredLabel = {}
  /\ hoveredPoint = {}
  /\ hoveredPointIndex = {}
  /\ renderedLabelBounds = <<>>

\* DataLayer.runQuery, lines 121-139: the text handed to the data source for the
\* current view and the conditions of this.whereConditions, or the exception thrown
\* while the text is built (threw, and no text)
RunQuery ==
  \E bounds \in {calculateVisibleBounds(zoom, panX, panY, AspectRatio(canvasW, canvasH))},
     threw \in {\E k \in 1..Len(lastOp.whereConditions) :
                  Throws(lastOp.whereConditions[k])} :
    /\ lastOp' = [op |-> "runQuery", whereConditions |-> lastOp.whereConditions,
                  bounds |-> bounds, threw |-> threw,
                  where |-> IF threw THEN <<>>
                            ELSE WhereClause(bounds, lastOp.whereConditions)]
    /\ UNCHANGED <<now, initPhase, dataVars, timers, inflight, gpuVars, viewVars, histVars,
                   labelVars>>

NextWhere == RunQuery

SpecWhere == InitWhere /\ [][NextWhere]_vars

\* A text read as the query language reads it: pieces outside string literals, and
\* string literals with their content decoded (inside a literal two quotes are one
\* quote character, a single quote ends the literal).  The result is a sequence of
\* [kind, s]: kind "text" with s = <<piece>>, kind "literal" with s = the content,
\* kind "unterminated" when the text ends inside a literal.
RECURSIVE ReadLiteral(_, _, _)
RECURSIVE ReadText(_, _)
ReadLiteral(text, k, content) ==
  IF k > Len(text)
  THEN <<[kind |-> "unterminated", s |-> content]>>
  ELSE IF text[k] # Quote
  THEN ReadLiteral(text, k + 1, Append(content, text[k]))
  ELSE IF k < Len(text) /\ text[k + 1] = Quote
  THEN ReadLiteral(text, k + 2, Append(content, Quote))
  ELSE <<[kind |-> "literal", s |-> content]>> \o ReadText(text, k + 1)

ReadText(text, k) ==
  IF k > Len(text) THEN <<>>
  ELSE IF text[k] = Quote THEN ReadLiteral(text, k + 1, <<>>)
  ELSE <<[kind |-> "text", s |-> <<text[k]>>]>> \o ReadText(text, k + 1)

Piece(p) == [kind |-> "text", s |-> <<p>>]

\* what a condition means: the comparison, or the pattern the column is matched with
MeaningOf(condition) ==
  IF condition.type = "numeric"
  THEN <<Piece(condition.column), Piece(" "), Piece(condition.operator), Piece(" "),
         Piece(NumberToString(condition.value))>>
  ELSE IF condition.type = "raw"
  THEN [k \in 1..Len(condition.sql) |-> Piece(condition.sql[k])]
  ELSE <<Piece(condition.column),
         Piece(IF condition.operator = "equals" THEN " = " ELSE " LIKE "),
         [kind |-> "literal",
          s |-> (IF condition.operator \in {"contains", "endsWith"} THEN <<"%">> ELSE <<>>)
                \o condition.value
                \o (IF condition.operator \in {"contains", "startsWith"}
                    THEN <<"%">> ELSE <<>>)]>>

RECURSIVE ConjunctionOf(_)
ConjunctionOf(meanings) ==
  IF Len(meanings) = 1 THEN meanings[1]
  ELSE meanings[1] \o <<Piece(" AND ")>> \o ConjunctionOf(Tail(meanings))

\* C24: runQuery builds a predicate for every list of conditions; read as query text,
\* it is the conjunction of the two BETWEEN conditions and one clause per condition,
\* in order, and the string literal of every string condition reads back as the
\* condition's value (with its wildcards): no quote of the value ends the literal.
C24_ConjunctivePredicate ==
  lastOp.op = "runQuery" =>
    /\ ~lastOp.threw
    /\ ReadText(lastOp.where, 1) =
      ConjunctionOf(
        <<<<Piece("x BETWEEN "), Piece(NumberToString(lastOp.bounds.minX)), Piece(" AND "),
            Piece(NumberToString(lastOp.bounds.maxX))>>,
          <<Piece("y BETWEEN "), Piece(NumberToString(lastOp.bounds.minY)), Piece(" AND "),
            Piece(NumberToString(lastOp.bounds.maxY))>>>>
        \o [k \in 1..Len(lastOp.whereConditions) |-> MeaningOf(lastOp.whereConditions[k])])

(***************************************************************************)
(* Error classification (errors.ts).                                       *)
(***************************************************************************)
\* types.ts 149-163
ErrorCodes ==
  {"WEBGPU_NOT_SUPPORTED", "GPU_ADAPTER_NOT_AVAILABLE", "GPU_DEVICE_FAILED",
   "WEBGPU_CONTEXT_FAILED", "DATA_LAYER_NOT_INITIALIZED", "PARQUET_LOAD_FAILED",
   "QUERY_FAILED", "LABEL_FETCH_FAILED", "LABEL_PARSE_FAILED", "NETWORK_ERROR"}

\* errors.ts 6-21
categoryMap ==
  [code \in ErrorCodes |->
     CASE code \in {"WEBGPU_NOT_SUPPORTED", "GPU_ADAPTER_NOT_AVAILABLE", "GPU_DEVICE_FAILED",
                    "WEBGPU_CONTEXT_FAILED"} -> "webgpu"
       [] code \in {"DATA_LAYER_NOT_INITIALIZED", "PARQUET_LOAD_FAILED"} -> "data"
       [] code = "QUERY_FAILED" -> "query"
       [] code \in {"LABEL_FETCH_FAILED", "LABEL_PARSE_FAILED"} -> "label"
       [] code = "NETWORK_ERROR" -> "network"]

\* errors.ts 26-40
severityMap ==
  [code \in ErrorCodes |->
     CASE code \in {"WEBGPU_NOT_SUPPORTED", "GPU_ADAPTER_NOT_AVAILABLE", "GPU_DEVICE_FAILED",
                    "WEBGPU_CONTEXT_FAILED", "DATA_LAYER_NOT_INITIALIZED",
                    "PARQUET_LOAD_FAILED"} -> "fatal"
       [] code \in {"QUERY_FAILED", "NETWORK_ERROR"} -> "error"
       [] code \in {"LABEL_FETCH_FAILED", "LABEL_PARSE_FAILED"} -> "warning"]

\* errors.ts 59-76; an optional field is {} (undefined) or {value}
createError(code, message, options, timestamp) ==
  [code |-> code,
   category |-> categoryMap[code],
   severity |-> severityMap[code],
   message |-> message,
   cause |-> options.cause,
   context |-> options.context,
   timestamp |-> timestamp]

\* the arguments createError is called with, and the readings of Date.now()
ErrorMessages == {"load failed", "query failed"}
ErrorOptions == [cause : {{}, {"Error"}}, context : {{}, {"url"}}]
DateNow == {1, 2}

\* a call of createError
CreateError ==
  /\ \E code \in ErrorCodes, message \in ErrorMessages, options \in ErrorOptions,
        timestamp \in DateNow :
       lastOp' = [op |-> "createError", code |-> code, message |-> message,
                  options |-> options,
                  error |-> createError(code, message, options, timestamp)]
  /\ UNCHANGED <<now, initPhase, dataVars, timers, inflight, gpuVars, viewVars, histVars,
                 labelVars>>

NextErrors == CreateError

SpecErrors == InitHover /\ [][NextErrors]_vars

\* the codes of data-source failures: the data layer not initialized, the Parquet
\* load failed, a query failed
DataSourceFailures == {"DATA_LAYER_NOT_INITIALIZED", "PARQUET_LOAD_FAILED", "QUERY_FAILED"}

\* C25: an error created for a data-source failure is recoverable (its severity is
\* not fatal), only errors of the WebGPU category are fatal, and createError returns
\* the category and the severity fixed for the code, with the message, cause and
\* context it was given.
C25_ErrorTaxonomy ==
  lastOp.op = "createError" =>
    /\ lastOp.error.code = lastOp.code
    /\ lastOp.error.category = categoryMap[lastOp.code]
    /\ lastOp.error.severity = severityMap[lastOp.code]
    /\ lastOp.error.message = lastOp.message
    /\ lastOp.error.cause = lastOp.options.cause
    /\ lastOp.error.context = lastOp.options.context
    /\ lastOp.code \in DataSourceFailures => lastOp.error.severity # "fatal"
    /\ lastOp.error.severity = "fatal" => lastOp.error.category = "webgpu"

(***************************************************************************)
(* Initialization without a GPU surface (WebGPUContext.initialize inside   *)
(* GpuLayer.initialize inside ScatterPlot.initialize).                      *)
(***************************************************************************)
\* what one call of navigator.gpu.requestAdapter does
AdapterResults == {"adapter", "null", "throw"}

\* webgpu-context.ts 17-47: the three attempts in order (high-performance, default,
\* low-power); a throw is swallowed and counts as no adapter
AdapterFound(attempts) ==
  IF attempts[1] = "adapter" THEN TRUE
  ELSE IF attempts[2] = "adapter" THEN TRUE
  ELSE attempts[3] = "adapter"

\* the error ScatterPlot.initialize rejects with
Rejected(error) == [step |-> "rejected", data |-> NoData, error |-> error]

\* webgpu-context.ts 10-59: navigator.gpu is tested and an adapter requested
RequestAdapter ==
  /\ initPhase.step = "dataLoaded"
  /\ \E supported \in BOOLEAN, attempts \in [1..3 -> AdapterResults] :
       /\ initPhase' =
            IF ~supported THEN Rejected("WebGPU is not supported in this browser")
            ELSE IF ~AdapterFound(attempts) THEN Rejected("Failed to get GPU adapter")
            ELSE [initPhase EXCEPT !.step = "adapterReady"]
       /\ lastOp' = [op |-> "requestAdapter", supported |-> supported,
                     attempts |-> IF supported THEN attempts ELSE <<>>]
  /\ UNCHANGED <<now, dataVars, timers, inflight, gpuVars, viewVars, histVars, labelVars>>

\* what adapter.requestDevice does
DeviceResults == {"device", "null", "throw"}

\* webgpu-context.ts 62-85: the device is requested and stored, then the canvas is
\* asked for its 'webgpu' context and configured
RequestDevice ==
  /\ initPhase.step = "adapterReady"
  /\ \E result \in DeviceResults, canvasContext \in BOOLEAN :
       /\ device' = (result = "device")
       /\ initPhase' =
            IF result = "throw" THEN Rejected("Failed to get GPU device")
            ELSE IF result = "null" THEN Rejected("Failed to get GPU device: Device is null")
            ELSE IF ~canvasContext THEN Rejected("Failed to get WebGPU context from canvas")
            ELSE [initPhase EXCEPT !.step = "contextReady"]
       /\ lastOp' = [op |-> "requestDevice", result |-> result,
                     canvasContext |-> IF result = "device" THEN canvasContext ELSE FALSE]
  /\ UNCHANGED <<now, dataVars, timers, inflight, rowCount, baseInstanceData, bufferVars,
                 gpuHoveredPointIndex, hoverScaleFactor, drawn, viewVars, histVars,
                 labelVars>>

\* types.ts 244-246 and scatter-plot.ts 68: the pipeline, the buffers (with the initial
\* data) and the bind group are created, then the overlay canvas
CreateResources ==
  /\ initPhase.step = "contextReady"
  /\ initPhase' = [step |-> "ready", data |-> NoData]
  /\ UpdateInstanceBufferWith(TRUE, initPhase.data)
  /\ labelCanvas' = {[w |-> canvasW, h |-> canvasH]}
  /\ UNCHANGED <<now, dataVars, timers, inflight, device, zoom, panX, panY, canvasW, canvasH,
                 labelView, histVars, lastOp, gpuHoveredPointIndex, hoverScaleFactor, drawn,
                 labelVars>>

\* the onDataUpdate callback of ScatterPlot, for a query issued at any time after the
\* reader exists: the result is handed to the GPU layer, then ScatterPlot.render
DataUpdate ==
  /\ repository
  /\ allocations < MaxAllocations
  /\ \E l \in GpuLimits :
       \E r \in 0..l :
         /\ updateInstanceBuffer(Result(r, l))
         /\ drawn' = Draw(device, instanceBuffer', rowCount')
         /\ renderedLabelBounds' = RenderedBounds(labels, hoveredLabel, labelView, labelCanvas)
         /\ lastOp' = [op |-> "dataUpdate", data |-> Result(r, l)]
  /\ UNCHANGED <<now, initPhase, dataVars, timers, inflight, device, gpuHoveredPointIndex,
                 hoverScaleFactor, viewVars, histVars, hoverVars>>

NextInit ==
  \/ InitRepository
  \/ InitialDataLoaded
  \/ RequestAdapter
  \/ RequestDevice
  \/ CreateResources
  \/ DataUpdate
  \/ Render

SpecInit == Init /\ [][NextInit]_vars

\* the GPU surface could not be created: the step just taken found WebGPU unsupported,
\* no adapter in three attempts, no device, or no canvas context
SurfaceUnavailable ==
  \/ /\ lastOp.op = "requestAdapter"
     /\ ~lastOp.supported \/ \A k \in DOMAIN lastOp.attempts : lastOp.attempts[k] # "adapter"
  \/ /\ lastOp.op = "requestDevice"
     /\ lastOp.result # "device" \/ ~lastOp.canvasContext

\* C26: when the GPU surface cannot be created ScatterPlot.initialize rejects with an
\* error, and as long as initialize has not completed (so up to and at the rejection)
\* no draw call has been issued and the overlay has not been rendered, whatever render
\* calls and data updates arrived in between.
C26_RejectsBeforeRendering ==
  /\ SurfaceUnavailable => initPhase.step = "rejected" /\ initPhase.error # ""
  /\ initPhase.step # "ready" =>
       drawn = {} /\ labelCanvas = {} /\ renderedLabelBounds = <<>>

\* the canvas gave no context after the device was obtained; a data update then filled
\* an instance buffer and render was called: nothing was drawn
C26_Witness ==
  /\ initPhase.step = "rejected"
  /\ initPhase.error = "Failed to get WebGPU context from canvas"
  /\ device
  /\ instanceBuffer # {}
  /\ lastOp.op = "render"
  /\ drawn = {}

(***************************************************************************)
(* EventEmitter (event-emitter.ts).  The emitter's state after the last     *)
(* call is carried by lastOp: listeners is the Map from event to the Set of *)
(* handlers (a Set iterates in insertion order: a sequence without          *)
(* repetition), log the calls made so far.                                  *)
(***************************************************************************)
MaxEmitterCalls == 3

\* the event names of the emitter's event map, the handlers and the payloads
EventNames == {"", "error"}
EventHandlers == {"h1", "h2"}
EventData == {"d1", "d2"}

\* line 28: new Map(), and the state after the last call
EmitterListeners == IF "listeners" \in DOMAIN lastOp THEN lastOp.listeners ELSE <<>>
EmitterLog == IF "log" \in DOMAIN lastOp THEN lastOp.log ELSE <<>>

\* Set.prototype.add: only a value that is not in the set is appended
SetAdd(set, value) ==
  IF \E k \in 1..Len(set) : set[k] = value THEN set ELSE Append(set, value)

\* Set.prototype.delete
SetDelete(set, value) == SelectSeq(set, LAMBDA v : v # value)

\* Map.prototype.set and Map.prototype.delete
MapSet(map, key, value) ==
  [k \in DOMAIN map \cup {key} |-> IF k = key THEN value ELSE map[k]]

MapDelete(map, key) == [k \in DOMAIN map \ {key} |-> map[k]]

\* lines 37-43
on(listeners, event, handler) ==
  LET created == IF event \in DOMAIN listeners THEN listeners
                 ELSE MapSet(listeners, event, <<>>)
  IN  MapSet(created, event, SetAdd(created[event], handler))

\* lines 52-55: this.listeners.get(event)?.delete(handler)
off(listeners, event, handler) ==
  IF event \in DOMAIN listeners
  THEN MapSet(listeners, event, SetDelete(listeners[event], handler))
  ELSE listeners

\* JavaScript's truthiness of an event name: the empty string is falsy
Truthy(event) == event # ""

\* lines 79-86; the optional argument is {} (undefined) or {event}
removeAllListeners(listeners, arg) ==
  IF \E event \in arg : Truthy(event)
  THEN MapDelete(listeners, CHOOSE event \in arg : TRUE)
  ELSE <<>>

\* lines 64-71: what emit returns and the handler calls it makes, in order
emit(listeners, event, data) ==
  IF event \notin DOMAIN listeners \/ Len(listeners[event]) = 0
  THEN [returned |-> FALSE, invoked |-> <<>>]
  ELSE [returned |-> TRUE,
        invoked |-> [k \in 1..Len(listeners[event]) |->
                       [handler |-> listeners[event][k], data |-> data]]]

On ==
  /\ Len(EmitterLog) < MaxEmitterCalls
  /\ \E event \in EventNames, handler \in EventHandlers :
       lastOp' = [op |-> "on", listeners |-> on(EmitterListeners, event, handler),
                  log |-> Append(EmitterLog,
                                 [op |-> "on", event |-> event, handler |-> handler])]
  /\ UNCHANGED <<now, initPhase, dataVars, timers, inflight, gpuVars, viewVars, histVars,
                 labelVars>>

Off ==
  /\ Len(EmitterLog) < MaxEmitterCalls
  /\ \E event \in EventNames, handler \in EventHandlers :
       lastOp' = [op |-> "off", listeners |-> off(EmitterListeners, event, handler),
                  log |-> Append(EmitterLog,
                                 [op |-> "off", event |-> event, handler |-> handler])]
  /\ UNCHANGED <<now, initPhase, dataVars, timers, inflight, gpuVars, viewVars, histVars,
                 labelVars>>

RemoveAllListeners ==
  /\ Len(EmitterLog) < MaxEmitterCalls
  /\ \E arg \in {{}} \cup {{event} : event \in EventNames} :
       lastOp' = [op |-> "removeAllListeners",
                  listeners |-> removeAllListeners(EmitterListeners, arg),
                  log |-> Append(EmitterLog, [op |-> "removeAllListeners", arg |-> arg])]
  /\ UNCHANGED <<now, initPhase, dataVars, timers, inflight, gpuVars, viewVars, histVars,
                 labelVars>>

Emit ==
  /\ Len(EmitterLog) < MaxEmitterCalls
  /\ \E event \in EventNames, data \in EventData :
       lastOp' = [op |-> "emit", listeners |-> EmitterListeners,
                  event |-> event, data |-> data,
                  result |-> emit(EmitterListeners, event, data),
                  before |-> EmitterLog,
                  log |-> Append(EmitterLog, [op |-> "emit", event |-> event])]
  /\ UNCHANGED <<now, initPhase, dataVars, timers, inflight, gpuVars, viewVars, histVars,
                 labelVars>>

NextEmitter == On \/ Off \/ RemoveAllListeners \/ Emit

SpecEmitter == InitHover /\ [][NextEmitter]_vars

\* the handlers registered for an event after a sequence of calls: on registers, off
\* removes the handler, removeAllListeners(event) removes the handlers of that event
\* and removeAllListeners() those of every event
RECURSIVE RegisteredAfter(_, _)
RegisteredAfter(log, event) ==
  IF log = <<>> THEN {}
  ELSE LET call == log[Len(log)]
           earlier == RegisteredAfter(SubSeq(log, 1, Len(log) - 1), event)
       IN  IF call.op = "on" /\ call.event = event THEN earlier \cup {call.handler}
           ELSE IF call.op = "off" /\ call.event = event THEN earlier \ {call.handler}
           ELSE IF call.op = "removeAllListeners" /\ (call.arg = {} \/ event \in call.arg)
           THEN {}
           ELSE earlier

\* C27: after any sequence of on, off and removeAllListeners calls, emit(event, data)
\* returns true exactly if a handler is registered for the event, and then calls each
\* registered handler of the event once with data, and no other handler.
C27_EmitReachesRegisteredHandlers ==
  lastOp.op = "emit" =>
    LET registered == RegisteredAfter(lastOp.before, lastOp.event)
        invoked == lastOp.result.invoked
    IN  /\ lastOp.result.returned = (registered # {})
        /\ \A h \in registered :
             Cardinality({k \in 1..Len(invoked) : invoked[k].handler = h}) = 1
        /\ \A k \in 1..Len(invoked) :
             invoked[k].handler \in registered /\ invoked[k].data = lastOp.data

(***************************************************************************)
(* Label priority (LabelLayer.loadLabels, then LabelLayer.render).         *)
(***************************************************************************)
\* the features of a fetched file: a position of LabelPositions with a count
CountedFeatures ==
  {[x |-> p[1], y |-> p[2], count |-> c, textWidth |-> 20, properties |-> [pass |-> TRUE]] :
     p \in LabelPositions, c \in {1, 2}}

\* ... or without a count
UncountedFeatures ==
  {[x |-> p[1], y |-> p[2], textWidth |-> 20, properties |-> [pass |-> TRUE]] :
     p \in LabelPositions}

\* the feature files: up to MaxLabels features at different positions
CountFeatureFiles ==
  {f \in SeqsUpTo(CountedFeatures \cup UncountedFeatures, MaxLabels) :
     \A k, m \in 1..Len(f) : (f[k].x = f[m].x /\ f[k].y = f[m].y) => k = m}

\* an initialized plot that has fetched a label file (scatter-plot.ts 71-75) and holds
\* no labels yet
InitOrder ==
  /\ now = 0
  /\ initPhase = [step |-> "ready", data |-> NoData]
  /\ repository = TRUE
  /\ device = TRUE
  /\ currentQueryId = 0
  /\ latestRequestedViewport = {}
  /\ lastQueryTime = 0
  /\ throttleTimer = {}
  /\ timers = {}
  /\ inflight = {}
  /\ currentVisibleData = [src |-> "initial", gen |-> 0, rows |-> 0]
  /\ rowCount = 0
  /\ baseInstanceData = [src |-> "initial", gen |-> 0, rows |-> 0, limit |-> MaxRows]
  /\ currentInstanceData = {<<>>}
  /\ zoom \in LabelZooms
  /\ panX = I(0) /\ panY = I(0)
  /\ canvasW = HoverCanvas.w /\ canvasH = HoverCanvas.h
  /\ labelView = [zoom |-> zoom, panX |-> panX, panY |-> panY]
  /\ calls = <<>> /\ queries = <<>> /\ applied = <<>>
  /\ completed = [queryId |-> 0, kind |-> "none", current |-> FALSE, exc |-> FALSE]
  /\ rejected = FALSE
  /\ labelCanvas = {HoverCanvas}
  /\ \E features \in CountFeatureFiles : lastOp = [op |-> "fetched", features |-> features]
  /\ visiblePointLimit = MaxRows
  /\ instanceBuffer = {1}
  /\ instanceBufferCapacity = MaxRows
  /\ gpuHoveredPointIndex = {}
  /\ hoverScaleFactor = Q(13, 10)
  /\ allocations = 1
  /\ destroyed = {}
  /\ bufferOps = <<[op |-> "create", buffer |-> 1], [op |-> "write", buffer |-> 1]>>
  /\ drawn = {}
  /\ labels = <<>>
  /\ hoveredLabel = {}
  /\ hoveredPoint = {}
  /\ hoveredPointIndex = {}
  /\ renderedLabelBounds = <<>>

\* ScatterPlot.loadLabels with the fetched file (scatter-plot.ts 75, 101-106): the labels
\* are stored, then everything is rendered
LoadFetchedLabels ==
  /\ lastOp.op = "fetched"
  /\ labels' = loadLabels(lastOp.features, 1)
  /\ drawn' = Draw(device, instanceBuffer, rowCount)
  /\ renderedLabelBounds' = RenderedBounds(labels', hoveredLabel, labelView, labelCanvas)
  /\ lastOp' = [op |-> "loadLabels", features |-> lastOp.features]
  /\ UNCHANGED <<now, initPhase, dataVars, timers, inflight, gpuDataVars, viewVars,
                 histVars, hoveredLabel, hoveredPoint, hoveredPointIndex>>

NextOrder == LoadFetchedLabels \/ Render

SpecOrder == InitOrder /\ [][NextOrder]_vars

\* the screen position of the k-th stored label, and whether it was placed
ScreenOf(k) == LabelScreen(labels[k], labelView, CHOOSE c \in labelCanvas : TRUE)

Placed(k) == \E i \in 1..Len(renderedLabelBounds) : renderedLabelBounds[i].label = labels[k]

\* C31: the stored labels are the features of the file in descending order of count,
\* a missing count being 0; after the render that follows, a label inside the canvas
\* is unplaced only if a label earlier in that order was placed within the minimum
\* distance, so the first label inside the canvas is placed.
C31_GreedyByCount ==
  /\ lastOp.op = "loadLabels" =>
       /\ Len(labels) = Len(lastOp.features)
       /\ \A j \in 1..Len(lastOp.features) :
            \E k \in 1..Len(labels) :
              /\ labels[k].ref[2] = j
              /\ labels[k].x = lastOp.features[j].x /\ labels[k].y = lastOp.features[j].y
              /\ labels[k].count = (IF "count" \in DOMAIN lastOp.features[j]
                                    THEN lastOp.features[j].count ELSE 0)
  /\ lastOp.op \in {"loadLabels", "render"} =>
    /\ \A k, m \in 1..Len(labels) : k < m => labels[k].count >= labels[m].count
    /\ \A k \in 1..Len(labels) :
         (OnCanvas(ScreenOf(k), CHOOSE c \in labelCanvas : TRUE) /\ ~Placed(k)) =>
           \E m \in 1..(k - 1) :
             /\ Placed(m)
             /\ Lt(Add(Square(Sub(ScreenOf(m)[1], ScreenOf(k)[1])),
                       Square(Sub(ScreenOf(m)[2], ScreenOf(k)[2]))),
                   Square(Mul(I(minLabelDistance), Div(I(labelFontSize), I(12)))))
    /\ \A k \in 1..Len(labels) :
         (OnCanvas(ScreenOf(k), CHOOSE c \in labelCanvas : TRUE)
          /\ \A m \in 1..(k - 1) : ~OnCanvas(ScreenOf(m), CHOOSE c \in labelCanvas : TRUE))
         => Placed(k)

\* a file of three features in ascending order of count, the first without count: the
\* third comes first, and the label stored second is unplaced, too close to the first
C31_Witness ==
  /\ lastOp.op = "loadLabels"
  /\ Len(labels) = 3
  /\ labels[1].ref[2] = 3 /\ labels[2].ref[2] = 2 /\ labels[3].ref[2] = 1
  /\ labels[3].count = 0
  /\ "count" \notin DOMAIN lastOp.features[1]
  /\ Placed(1) /\ ~Placed(2) /\ Placed(3)
  /\ OnCanvas(ScreenOf(2), CHOOSE c \in labelCanvas : TRUE)

(***************************************************************************)
(* Destruction (ScatterPlot.destroy) while requests are pending.           *)
(***************************************************************************)
\* ScatterPlot.destroy, scatter-plot.ts 331-335: DataLayer.destroy cancels the pending
\* throttle timer (data-layer.ts 463-471); GpuLayer.destroy destroys the buffers and
\* drops the device (types.ts 687-702, webgpu-context.ts 88-94); LabelLayer.destroy
\* detaches the overlay canvas, which the layer keeps (label-layer.ts 521-526).
\* lastOp remembers the requests that were waiting or in flight.  A plot is
\* destroyed once: the action is taken while the device is alive.
DestroyPlot ==
  /\ device = TRUE
  /\ timers' = ClearTimeout(timers, throttleTimer)
  /\ throttleTimer' = {}
  /\ device' = FALSE
  /\ destroyed' = destroyed \cup instanceBuffer
  /\ bufferOps' = bufferOps \o (IF instanceBuffer = {} THEN <<>>
                                ELSE <<[op |-> "destroy",
                                        buffer |-> CHOOSE b \in instanceBuffer : TRUE]>>)
  /\ lastOp' = [op |-> "destroy", queryId |-> currentQueryId, pending |-> timers,
                inflight |-> inflight]
  /\ UNCHANGED <<now, initPhase, repository, currentQueryId, latestRequestedViewport,
                 lastQueryTime, currentVisibleData, visiblePointLimit, inflight, rowCount,
                 baseInstanceData, instanceBuffer, instanceBufferCapacity,
                 currentInstanceData, allocations, gpuHoveredPointIndex, hoverScaleFactor,
                 drawn, viewVars, histVars, labelVars>>

NextDestroy ==
  \/ Tick
  \/ ScheduleUpdate
  \/ TimerFire
  \/ Complete
  \/ DestroyPlot

SpecDestroy == InitHover /\ [][NextDestroy]_vars

\* C32: a request that was waiting on the throttle timer when the plot was destroyed
\* never reaches the data source: no query of it exists, however much time passes.
C32_DestroyedTimerNeverRuns ==
  lastOp.op = "destroy" =>
    /\ \A t \in lastOp.pending : \A k \in 1..Len(queries) : queries[k].queryId # t.queryId
    /\ \A t \in timers : t.queryId > lastOp.queryId

\* a request was waiting when the plot was destroyed and its deadline has passed
C32_Witness ==
  /\ lastOp.op = "destroy"
  /\ lastOp.pending # {}
  /\ \A t \in lastOp.pending : now >= t.fireAt
  /\ timers = {}

\* C33: the completion of a query that was in flight when the plot was destroyed
\* applies nothing: the apply callback is not invoked, the hit-test set is not
\* replaced, and nothing is rendered.
C33_NoResultAfterDestroy ==
  [][(lastOp.op = "destroy" /\ \E q \in lastOp.inflight : q \in inflight /\ q \notin inflight')
     => /\ applied' = applied
        /\ currentVisibleData' = currentVisibleData
        /\ drawn' = drawn
        /\ renderedLabelBounds' = renderedLabelBounds]_vars

(***************************************************************************)
(* Trailing edge of the throttle: the last request is served.              *)
(***************************************************************************)
\* setTimeout(delay), line 214: time passes until the deadline of the armed timer,
\* also where the clock of Tick has reached its bound
WaitForTimer ==
  /\ now + TimeStep > MaxTime
  /\ \E t \in timers : now < t.fireAt /\ now' = t.fireAt
  /\ UNCHANGED <<initPhase, dataVars, timers, inflight, gpuVars, viewVars, histVars, lastOp,
                 labelVars>>

NextTrailing ==
  \/ Tick
  \/ WaitForTimer
  \/ ScheduleUpdate
  \/ TimerFire
  \/ Complete

\* the steps of TimerFire: an armed timer whose deadline has passed is taken off the
\* event loop, by the event loop and not by a call that cancels it
TimerRuns ==
  \E t \in timers :
    /\ now >= t.fireAt
    /\ timers' = timers \ {t}
    /\ currentQueryId' = currentQueryId

\* The event loop runs a timer whose deadline has passed, and every deadline comes.
SpecTrailing ==
  /\ InitHover
  /\ [][NextTrailing]_vars
  /\ WF_now(Tick)
  /\ WF_now(WaitForTimer)
  /\ WF_<<timers, currentQueryId>>(TimerRuns)

\* a query was executed for call id, with the viewport of that call
Executed(id) ==
  \E k \in 1..Len(queries) : queries[k].queryId = id /\ queries[k].vp = calls[id].vp

\* C34: without destroy, once the calls of scheduleVisiblePointsUpdate stop, a query
\* with the viewport of the last call is eventually executed, and when the query of
\* the latest call completes with rows the apply callback is invoked for it.
C34_TrailingEdge ==
  /\ \A id \in 1..MaxCalls :
       (currentQueryId = id) ~> (currentQueryId # id \/ Executed(id))
  /\ [][(/\ \E q \in inflight : q \notin inflight' /\ q.queryId = currentQueryId
         /\ completed'.kind \in {"rows", "noColumn"})
        => applied' = Append(applied, currentQueryId)]_vars

\* the last call was deferred, its query ran when the timer fired, and its rows were
\* applied
C34_Witness ==
  /\ currentQueryId = MaxCalls
  /\ \E k \in 1..Len(queries) :
       /\ queries[k].queryId = MaxCalls
       /\ queries[k].vp = calls[MaxCalls].vp
       /\ queries[k].t > calls[MaxCalls].t
  /\ completed.queryId = MaxCalls
  /\ completed.kind = "rows"
  /\ Last(applied) = MaxCalls

(***************************************************************************)
(* Continuous input does not starve the scheduler.                         *)
(***************************************************************************)
\* C35: a timer armed by the scheduler is due one throttle interval after the start of
\* the last query; a call made before that deadline re-arms the timer for the same
\* deadline, and the first call or timer firing at or after the deadline executes a
\* query, for the latest call.
C35_NotStarved ==
  [][\A t \in timers :
       /\ t.fireAt = lastQueryTime + queryThrottleInterval
       /\ (calls' # calls /\ now < t.fireAt)
            => \E u \in timers' :
                 /\ timers' = {u}
                 /\ u.fireAt = t.fireAt
                 /\ u.queryId = currentQueryId'
                 /\ queries' = queries
       /\ (now >= t.fireAt /\ (calls' # calls \/ (timers' # timers /\ device' = device)))
            => /\ Len(queries') = Len(queries) + 1
               /\ Last(queries').queryId = currentQueryId'
               /\ Last(queries').t = now]_vars

\* two calls at different times before the deadline were deferred to the same deadline,
\* one throttle interval after the previous query, and the timer ran the query of the
\* last call at that deadline
C35_Witness ==
  /\ Len(calls) = 3
  /\ Len(queries) = 2
  /\ calls[2].t < calls[3].t
  /\ calls[3].t < queries[1].t + queryThrottleInterval
  /\ queries[2].queryId = 3
  /\ queries[2].t = queries[1].t + queryThrottleInterval
  /\ timers = {}

(***************************************************************************)
(* The hit-test set and the renderer's resident set.                       *)
(***************************************************************************)
\* the rows of DataLayer.currentVisibleData are the rows of the instance data last
\* handed to GpuLayer.updateInstanceBuffer, in the same order
SameRows(visible, resident) ==
  /\ visible.rows = resident.rows
  /\ visible.rows > 0 => (visible.src = resident.src /\ visible.gen = resident.gen)

\* C36: the hit-test set holds the rows of the renderer's resident set after
\* initialization and after every completion of a query (accepted, stale, empty,
\* failed, or lacking an expected column) on the initialized plot.
C36_HitTestSetIsResidentSet ==
  [][/\ (initPhase.step # "ready" /\ initPhase'.step = "ready" /\ completed.kind = "none")
          => SameRows(currentVisibleData', baseInstanceData')
     /\ (/\ initPhase.step = "ready"
         /\ SameRows(currentVisibleData, baseInstanceData)
         /\ \E q \in inflight : q \notin inflight')
          => SameRows(currentVisibleData', baseInstanceData')]_vars

(***************************************************************************)
(* The hovered index and the resident point set.                           *)
(***************************************************************************)
\* the state ScatterPlot.initialize leaves with visiblePointLimit = MaxPoints: up to
\* MaxPoints rows loaded and uploaded, the overlay canvas created, no labels
InitResident ==
  /\ now = queryThrottleInterval
  /\ initPhase = [step |-> "ready", data |-> NoData]
  /\ repository = TRUE
  /\ device = TRUE
  /\ currentQueryId = 0
  /\ latestRequestedViewport = {}
  /\ lastQueryTime = 0
  /\ throttleTimer = {}
  /\ timers = {}
  /\ inflight = {}
  /\ visiblePointLimit = MaxPoints
  /\ \E n \in 1..MaxPoints :
       /\ currentVisibleData = [src |-> "initial", gen |-> 0, rows |-> n]
       /\ rowCount = n
       /\ baseInstanceData = [src |-> "initial", gen |-> 0, rows |-> n, limit |-> MaxPoints]
       /\ currentInstanceData = {[i \in 1..n |-> DefaultSize]}
  /\ zoom = I(1) /\ panX = I(0) /\ panY = I(0)
  /\ canvasW = HoverCanvas.w /\ canvasH = HoverCanvas.h
  /\ labelView = [zoom |-> I(1), panX |-> I(0), panY |-> I(0)]
  /\ calls = <<>> /\ queries = <<>> /\ applied = <<>>
  /\ completed = [queryId |-> 0, kind |-> "none", current |-> FALSE, exc |-> FALSE]
  /\ rejected = FALSE
  /\ labelCanvas = {HoverCanvas}
  /\ lastOp = [op |-> "none"]
  /\ instanceBuffer = {1}
  /\ instanceBufferCapacity = MaxPoints
  /\ gpuHoveredPointIndex = {}
  /\ hoverScaleFactor = Q(13, 10)
  /\ allocations = 1
  /\ destroyed = {}
  /\ bufferOps = <<[op |-> "create", buffer |-> 1], [op |-> "write", buffer |-> 1]>>
  /\ drawn = {}
  /\ labels = <<>>
  /\ hoveredLabel = {}
  /\ hoveredPoint = {}
  /\ hoveredPointIndex = {}
  /\ renderedLabelBounds = <<>>

NextResident ==
  \/ MouseMove
  \/ MouseLeave
  \/ RefreshData
  \/ Complete

SpecResident == InitResident /\ [][NextResident]_vars

\* C37: a non-null hoveredPointIndex is the index of a record of the resident point set:
\* 0 <= hoveredPointIndex < the row count of the last accepted result.
C37_HoveredIndexIsResident ==
  \A i \in hoveredPointIndex : 0 <= i /\ i < currentVisibleData.rows

(***************************************************************************)
(* One view transform for the overlay and the point renderer.              *)
(***************************************************************************)
\* C38: after every view operation of ScatterPlot (setZoom, zoomIn, zoomOut,
\* zoomToPoint, resetView, setPan, pan, resize) the LabelLayer holds the zoom and pan
\* the GpuLayer holds, the zoom being the one the GpuLayer stored after clamping.
C38_SharedViewTransform ==
  labelView = [zoom |-> zoom, panX |-> panX, panY |-> panY]

\* a pan followed by a zoom request beyond the range: both layers hold the clamped zoom
\* and the pan
C38_Witness ==
  /\ lastOp.op = "setZoom"
  /\ zoom = MAX_ZOOM
  /\ labelView.zoom = MAX_ZOOM
  /\ panX # I(0)
  /\ labelView.panX = panX

(***************************************************************************)
(* The queried rectangle covers what is on screen.                         *)
(***************************************************************************)
\* pans ScatterPlot.setPan can set (GpuLayer.setPan stores its arguments as they are)
BoundsPans == MapPans \cup {I(3), PosInf}

InitBounds ==
  /\ now = 0
  /\ initPhase = [step |-> "ready", data |-> NoData]
  /\ repository = TRUE
  /\ device = TRUE
  /\ currentQueryId = 0
  /\ latestRequestedViewport = {}
  /\ lastQueryTime = 0
  /\ throttleTimer = {}
  /\ timers = {}
  /\ inflight = {}
  /\ currentVisibleData = NoData
  /\ rowCount = 0
  /\ baseInstanceData = NoData
  /\ zoom \in MapZooms
  /\ panX \in BoundsPans
  /\ panY \in BoundsPans
  /\ \E sz \in MapCanvasSizes : canvasW = sz[1] /\ canvasH = sz[2]
  /\ labelView = [zoom |-> zoom, panX |-> panX, panY |-> panY]
  /\ calls = <<>> /\ queries = <<>> /\ applied = <<>>
  /\ completed = [queryId |-> 0, kind |-> "none", current |-> FALSE, exc |-> FALSE]
  /\ rejected = FALSE
  /\ labelCanvas = {[w |-> canvasW, h |-> canvasH]}
  /\ lastOp = [op |-> "none"]
  /\ visiblePointLimit = MaxRows
  /\ instanceBuffer = {}
  /\ instanceBufferCapacity = 0
  /\ currentInstanceData = {}
  /\ gpuHoveredPointIndex = {}
  /\ hoverScaleFactor = Q(13, 10)
  /\ allocations = 0
  /\ destroyed = {}
  /\ bufferOps = <<>>
  /\ drawn = {}
  /\ labels = <<>>
  /\ hoveredLabel = {}
  /\ hoveredPoint = {}
  /\ hoveredPointIndex = {}
  /\ renderedLabelBounds = <<>>

NextBounds == CalculateVisibleBounds

SpecBounds == InitBounds /\ [][NextBounds]_vars

\* the corners and the centre of the clip square
ClipSquarePoints == {<<I(x), I(y)>> : x \in {-1, 1}, y \in {-1, 1}} \cup {<<I(0), I(0)>>}

InClipSquare(c) == Le(I(-1), c[1]) /\ Le(c[1], I(1)) /\ Le(I(-1), c[2]) /\ Le(c[2], I(1))

\* the world points tested against the rectangle: fixed ones, and the ones the
\* transform shows at the corners and the centre of the clip square
ProbePoints(z, px, py, ar) ==
  WorldPoints \cup {ClipToWorld(c, z, px, py, ar) : c \in ClipSquarePoints}

\* C39: for a zoom in [0.1, 10], any pan and an aspect ratio > 0, the rectangle of
\* calculateVisibleBounds has minX < maxX and minY < maxY and contains every world
\* point the same transform maps into the clip square.
C39_BoundsCoverScreen ==
  (/\ lastOp.op = "calculateVisibleBounds"
   /\ ZoomInRange(lastOp.zoom)
   /\ Lt(I(0), lastOp.aspectRatio))
  => LET b == lastOp.bounds
     IN  /\ Lt(b.minX, b.maxX)
         /\ Lt(b.minY, b.maxY)
         /\ \A p \in ProbePoints(lastOp.zoom, lastOp.panX, lastOp.panY, lastOp.aspectRatio) :
              InClipSquare(WorldToClip(p, lastOp.zoom, lastOp.panX, lastOp.panY,
                                       lastOp.aspectRatio))
                => /\ Le(b.minX, p[1]) /\ Le(p[1], b.maxX)
                   /\ Le(b.minY, p[2]) /\ Le(p[2], b.maxY)

=============================================================================
